---- MODULE Spec2Model ----
(***************************************************************************)
(* Model of the shipment intake, item upsert, status lifecycle, audit      *)
(* trail, scanning and print queue of the QR inventory system              *)
(* (inventory/views.py, inventory/api_views.py, inventory/models.py,       *)
(* print_worker.py).                                                       *)
(*                                                                         *)
(* Text that the code parses, strips or concatenates (manufacturer,        *)
(* pallet id, the numeric form fields, the barcode payload) is a sequence  *)
(* of one-character strings; text the code only stores and compares        *)
(* (location, description, tags, actor, notes) is an opaque string.        *)
(* The auto-managed created_at/updated_at columns are not modelled.        *)
(***************************************************************************)
EXTENDS Integers, Sequences, FiniteSets, TLC

VARIABLES
    items,             \* InventoryItem table: primary key -> row
    status_history,    \* StatusHistory table, in insertion order
    change_log,        \* ChangeLog table, in insertion order
    notification_log,  \* NotificationLog table, in insertion order
    next_id,           \* next InventoryItem primary key
    scan_log,          \* ScanLog table, in insertion order
    print_jobs,        \* PrintJob table: primary key -> row
    next_job,          \* next PrintJob primary key
    deletion_log,      \* DeletionLog table, in insertion order
    webhook,           \* NOTIFICATION_WEBHOOK_URL and the endpoint behind it
    fault,             \* the database statement that fails, if any
    worker,            \* print_worker.py: its position and the jobs it fetched
    printer,           \* the labels sent to the printer, as job ids, in order
    now,               \* timezone.now(), a logical clock
    response,          \* the last finished request and what it returned
    reqs               \* requests in flight (interleaved specification only)

vars == <<items, status_history, change_log, notification_log, next_id,
          scan_log, print_jobs, next_job, deletion_log, webhook, fault,
          worker, printer, now, response, reqs>>

\* the tables, with the environment the handlers read and never write
store == <<items, status_history, change_log, notification_log, next_id,
           scan_log, print_jobs, next_job, deletion_log, webhook, fault,
           worker, printer>>

-----------------------------------------------------------------------------
(* Bounds *)

MaxTime == 3        \* requests handled in one behaviour
MaxItems == 3       \* rows the InventoryItem table may hold
MaxReqs == 2        \* requests in flight at the same time
MaxPrintTime == 5   \* the clock up to which the print worker reports

-----------------------------------------------------------------------------
(* Text helpers *)

None == -1

Digits == <<"0", "1", "2", "3", "4", "5", "6", "7", "8", "9">>

IsDigit(c) == \E d \in 1..10 : Digits[d] = c

DigitVal(c) == (CHOOSE d \in 1..10 : Digits[d] = c) - 1

RECURSIVE NatToText(_)
NatToText(n) ==
    IF n < 10 THEN <<Digits[n + 1]>>
    ELSE NatToText(n \div 10) \o <<Digits[(n % 10) + 1]>>

\* str(n) of a Python int
IntToText(n) == IF n < 0 THEN <<"-">> \o NatToText(0 - n) ELSE NatToText(n)

RECURSIVE DigitsVal(_)
DigitsVal(s) ==
    IF s = <<>> THEN 0
    ELSE 10 * DigitsVal(SubSeq(s, 1, Len(s) - 1)) + DigitVal(s[Len(s)])

AllDigits(s) == s # <<>> /\ \A k \in 1..Len(s) : IsDigit(s[k])

RECURSIVE LStrip(_)
LStrip(s) == IF s # <<>> /\ s[1] = " " THEN LStrip(Tail(s)) ELSE s

RECURSIVE RStrip(_)
RStrip(s) ==
    IF s # <<>> /\ s[Len(s)] = " " THEN RStrip(SubSeq(s, 1, Len(s) - 1)) ELSE s

\* str.strip()
Strip(s) == RStrip(LStrip(s))

\* int(s) of a Python str: surrounding blanks, an optional sign, then digits;
\* anything else raises ValueError (ok = FALSE)
ParseInt(s) ==
    LET t == Strip(s)
        signed == t # <<>> /\ t[1] \in {"-", "+"}
        body == IF signed THEN Tail(t) ELSE t
    IN  IF AllDigits(body)
        THEN [ok |-> TRUE,
              val |-> IF signed /\ t[1] = "-" THEN 0 - DigitsVal(body)
                      ELSE DigitsVal(body)]
        ELSE [ok |-> FALSE, val |-> 0]

\* str.split(','): the pieces between the commas, empty pieces included
RECURSIVE SplitComma(_)
SplitComma(s) ==
    IF \A k \in 1..Len(s) : s[k] # ","
    THEN <<s>>
    ELSE LET c == CHOOSE k \in 1..Len(s) :
                      s[k] = "," /\ \A j \in 1..(k - 1) : s[j] # ","
         IN  <<SubSeq(s, 1, c - 1)>> \o SplitComma(SubSeq(s, c + 1, Len(s)))

\* CAST(pallet_id AS integer) as SQLite evaluates it: the longest numeric
\* prefix, 0 when there is none
RECURSIVE DigitPrefix(_)
DigitPrefix(s) ==
    IF s # <<>> /\ IsDigit(s[1]) THEN <<s[1]>> \o DigitPrefix(Tail(s)) ELSE <<>>

CastInteger(s) ==
    LET t == LStrip(s)
        neg == t # <<>> /\ t[1] = "-"
        body == DigitPrefix(IF t # <<>> /\ t[1] \in {"-", "+"} THEN Tail(t) ELSE t)
    IN  IF neg THEN 0 - DigitsVal(body) ELSE DigitsVal(body)

SetMax(S) == CHOOSE x \in S : \A y \in S : y <= x

-----------------------------------------------------------------------------
(* Data model *)

STATUS_CHOICES ==
    {"checked_in", "checked_out", "tested", "will_be_reused", "recycling"}

\* f"MFR={manufacturer} | PALLET={pallet_id} | BOX={box_id}"
BarcodePayload(manufacturer, pallet_id, box_id) ==
    <<"M", "F", "R", "=">> \o manufacturer
        \o <<" ", "|", " ", "P", "A", "L", "L", "E", "T", "=">> \o pallet_id
        \o <<" ", "|", " ", "B", "O", "X", "=">> \o IntToText(box_id)

\* _get_short_qr_url: f"/qr/{item_id}/code.png"
ShortQrUrl(item_id) == <<"short", IntToText(item_id)>>

\* the api.qrserver.com URL built around the scanner URL of a payload
ExternalQrUrl(payload) == <<"qrserver", payload>>

NewItem(manufacturer, pallet_id, box_id, project_number, content, damaged, location, description, tags, barcode_payload, qr_url) ==
    [manufacturer |-> manufacturer, pallet_id |-> pallet_id, box_id |-> box_id,
     project_number |-> project_number, content |-> content,
     damaged |-> damaged, location |-> location, description |-> description,
     status |-> "checked_in", barcode_payload |-> barcode_payload,
     qr_url |-> qr_url, checked_out_by |-> "", checked_out_at |-> None,
     archived |-> FALSE, archived_at |-> None, tags |-> tags]

\* the tables as one value, so that a handler can thread them through its
\* statements; raised tells that an exception is on its way to the handler's
\* except clause
DB == [items |-> items, status_history |-> status_history,
       change_log |-> change_log, notification_log |-> notification_log,
       next_id |-> next_id, scan_log |-> scan_log, print_jobs |-> print_jobs,
       next_job |-> next_job, deletion_log |-> deletion_log,
       webhook |-> webhook, fault |-> fault, worker |-> worker,
       printer |-> printer, raised |-> FALSE]

\* no statement fails
NoFault == <<0, "">>

\* faulty variant: barcode_payload without its unique constraint
UniqueViolation_Off(db, pk, row) == FALSE

\* the unique=True constraint on barcode_payload, as the database checks it
\* on an INSERT or UPDATE of row pk
UniqueViolation(db, pk, row) ==
    \E j \in DOMAIN db.items :
        j # pk /\ db.items[j].barcode_payload = row.barcode_payload

\* InventoryItem.objects.create(...): IntegrityError (ok = FALSE) on a
\* duplicate barcode_payload
InsertItem(db, row) ==
    IF UniqueViolation(db, db.next_id, row)
    THEN [ok |-> FALSE, db |-> db, id |-> 0]
    ELSE [ok |-> TRUE,
          db |-> [db EXCEPT !.items = db.items @@ (db.next_id :> row),
                            !.next_id = db.next_id + 1],
          id |-> db.next_id]

\* item.save(): UPDATE of every column of row pk
SaveItem(db, pk, row) ==
    IF UniqueViolation(db, pk, row)
    THEN [ok |-> FALSE, db |-> db, id |-> pk]
    ELSE [ok |-> TRUE,
          db |-> [db EXCEPT !.items = (pk :> row) @@ db.items],
          id |-> pk]

\* StatusHistory.objects.create(...)
InsertHistory(db, item, old_status, new_status, notes, changed_by, at) ==
    [db EXCEPT !.status_history = Append(db.status_history,
        [item |-> item, old_status |-> old_status, new_status |-> new_status,
         notes |-> notes, changed_by |-> changed_by, changed_at |-> at])]

\* ChangeLog.objects.create(...)
InsertChange(db, item, change_type, field_name, old_value, new_value, changed_by, at) ==
    [db EXCEPT !.change_log = Append(db.change_log,
        [item |-> item, change_type |-> change_type, field_name |-> field_name,
         old_value |-> old_value, new_value |-> new_value,
         changed_by |-> changed_by, changed_at |-> at])]

\* InventoryItem.objects.filter(manufacturer=, pallet_id=, box_id=).first():
\* the matching row with the lowest primary key, 0 when there is none
FindItem(db, manufacturer, pallet_id, box_id) ==
    LET hits == {j \in DOMAIN db.items :
                    /\ db.items[j].manufacturer = manufacturer
                    /\ db.items[j].pallet_id = pallet_id
                    /\ db.items[j].box_id = box_id}
    IN  IF hits = {} THEN 0 ELSE CHOOSE j \in hits : \A k \in hits : j <= k

-----------------------------------------------------------------------------
(* Shipment intake: add_shipment *)

\* faulty variant: the number of stored rows plus one
NextPalletId_CountsRows(db) ==
    IntToText(Cardinality(DOMAIN db.items) + 1)

\* faulty variant: a counter of its own, the primary key sequence, which a
\* deletion does not set back
NextPalletId_OwnCounter(db) ==
    IntToText(db.next_id)

\* faulty variant: the highest pallet id in use is handed out again
NextPalletId_Reuses(db) ==
    IF DOMAIN db.items = {} THEN <<"1">>
    ELSE IntToText(SetMax({CastInteger(db.items[j].pallet_id) :
                              j \in DOMAIN db.items}))

\* _next_pallet_id: Max(Cast(pallet_id)) + 1, "1" when the maximum is
\* missing or zero
NextPalletId(db) ==
    IF DOMAIN db.items = {} THEN <<"1">>
    ELSE LET max_pallet ==
                 SetMax({CastInteger(db.items[j].pallet_id) : j \in DOMAIN db.items})
         IN  IF max_pallet # 0 THEN IntToText(max_pallet + 1) ELSE <<"1">>

\* the location the form means: the custom text when "other" is selected
FormLocation(form) ==
    IF form.location = "other" THEN form.location_custom ELSE form.location

\* faulty variant: a damaged-box number outside the range is accepted
RECURSIVE ParseDamagedBoxes_AcceptsAll(_, _, _)
ParseDamagedBoxes_AcceptsAll(parts, num_boxes_int, acc) ==
    IF parts = <<>> THEN acc
    ELSE LET part == Strip(Head(parts))
             parsed == ParseInt(part)
             next ==
                 IF part = <<>> THEN acc
                 ELSE IF ~parsed.ok
                 THEN [acc EXCEPT !.errors =
                          Append(@, <<"Invalid damaged box number", part>>)]
                 ELSE [acc EXCEPT !.set = @ \cup {parsed.val}]
         IN  ParseDamagedBoxes_AcceptsAll(Tail(parts), num_boxes_int, next)

\* the damaged-box loop of add_shipment, over the comma-separated parts
RECURSIVE ParseDamagedBoxes(_, _, _)
ParseDamagedBoxes(parts, num_boxes_int, acc) ==
    IF parts = <<>> THEN acc
    ELSE LET part == Strip(Head(parts))
             parsed == ParseInt(part)
             next ==
                 IF part = <<>> THEN acc
                 ELSE IF ~parsed.ok
                 THEN [acc EXCEPT !.errors =
                          Append(@, <<"Invalid damaged box number", part>>)]
                 ELSE IF num_boxes_int # 0
                         /\ (parsed.val < 1 \/ parsed.val > num_boxes_int)
                 THEN [acc EXCEPT !.errors =
                          Append(@, <<"Damaged box outside the range",
                                      IntToText(parsed.val)>>)]
                 ELSE [acc EXCEPT !.set = @ \cup {parsed.val}]
         IN  ParseDamagedBoxes(Tail(parts), num_boxes_int, next)

\* the validation block of add_shipment: every rule is evaluated and the
\* errors are collected in order
ValidateShipment(form) ==
    LET manufacturer == Strip(form.manufacturer)
        location == FormLocation(form)
        nb == ParseInt(Strip(form.num_boxes))
        ipb == ParseInt(Strip(form.items_per_box))
        num_boxes_int == IF nb.ok THEN nb.val ELSE 0
        items_per_box_int == IF ipb.ok THEN ipb.val ELSE 0
        e1 == IF manufacturer = <<>>
              THEN <<<<"Manufacturer / Supplier is required.", <<>>>>>> ELSE <<>>
        e2 == IF location = ""
              THEN <<<<"Receiving Location is required.", <<>>>>>> ELSE <<>>
        e3 == IF ~nb.ok
              THEN <<<<"Number of boxes must be a valid number.", <<>>>>>>
              ELSE IF nb.val < 1
              THEN <<<<"Number of boxes must be at least 1.", <<>>>>>> ELSE <<>>
        e4 == IF ~ipb.ok
              THEN <<<<"Items per box must be a valid number.", <<>>>>>>
              ELSE IF ipb.val < 1
              THEN <<<<"Items per box must be at least 1.", <<>>>>>> ELSE <<>>
        dmg == IF Strip(form.damaged_boxes) = <<>>
               THEN [errors |-> <<>>, set |-> {}]
               ELSE ParseDamagedBoxes(SplitComma(Strip(form.damaged_boxes)),
                                      num_boxes_int,
                                      [errors |-> <<>>, set |-> {}])
    IN  [errors |-> e1 \o e2 \o e3 \o e4 \o dmg.errors,
         manufacturer |-> manufacturer,
         project_number |-> form.project_number,
         location |-> location,
         description |-> form.description,
         tags |-> form.tags,
         damaged |-> form.damaged,
         num_boxes_int |-> num_boxes_int,
         items_per_box_int |-> items_per_box_int,
         damaged_box_set |-> dmg.set]

\* form_data: the submitted values as the error page presents them again
FormData(form, pallet_id) ==
    [manufacturer |-> Strip(form.manufacturer),
     pallet_id |-> pallet_id,
     project_number |-> form.project_number,
     num_boxes |-> Strip(form.num_boxes),
     items_per_box |-> Strip(form.items_per_box),
     location |-> FormLocation(form),
     damaged |-> form.damaged,
     description |-> form.description,
     damaged_boxes |-> Strip(form.damaged_boxes),
     tags |-> form.tags]

\* faulty variant: the global flag marks every box, list or no list
BoxDamaged_FlagWins(plan, box_num) ==
    plan.damaged = "yes" \/ box_num \in plan.damaged_box_set

\* whether box box_num of a plan is created damaged
BoxDamaged(plan, box_num) ==
    IF plan.damaged_box_set # {}
    THEN box_num \in plan.damaged_box_set
    ELSE plan.damaged = "yes"

\* faulty variant: a repeated shipment adds its count to the content of the box
ShipmentUpdateRow_AddsContent(existing, pk, plan, pallet_id, box_num) ==
    [existing EXCEPT
        !.content = existing.content + plan.items_per_box_int,
        !.damaged = BoxDamaged(plan, box_num),
        !.location = plan.location,
        !.description = plan.description,
        !.project_number = plan.project_number,
        !.tags = plan.tags,
        !.barcode_payload = BarcodePayload(plan.manufacturer, pallet_id, box_num),
        !.qr_url = ShortQrUrl(pk)]

\* the update branch of the loop body: the row as add_shipment saves it
ShipmentUpdateRow(existing, pk, plan, pallet_id, box_num) ==
    [existing EXCEPT
        !.content = plan.items_per_box_int,
        !.damaged = BoxDamaged(plan, box_num),
        !.location = plan.location,
        !.description = plan.description,
        !.project_number = plan.project_number,
        !.tags = plan.tags,
        !.barcode_payload = BarcodePayload(plan.manufacturer, pallet_id, box_num),
        !.qr_url = ShortQrUrl(pk)]

\* the create branch: the row as InventoryItem.objects.create receives it
ShipmentCreateRow(plan, pallet_id, box_num) ==
    NewItem(plan.manufacturer, pallet_id, box_num, plan.project_number,
            plan.items_per_box_int, BoxDamaged(plan, box_num), plan.location,
            plan.description, plan.tags,
            BarcodePayload(plan.manufacturer, pallet_id, box_num), <<>>)

\* one iteration of the box loop of add_shipment
ShipmentBox(db, plan, pallet_id, box_num, at) ==
    LET pk == FindItem(db, plan.manufacturer, pallet_id, box_num)
    IN  IF pk # 0
        THEN SaveItem(db, pk,
                      ShipmentUpdateRow(db.items[pk], pk, plan, pallet_id, box_num))
        ELSE LET ins == InsertItem(db, ShipmentCreateRow(plan, pallet_id, box_num))
             IN  IF ~ins.ok THEN ins
                 ELSE LET sav == SaveItem(ins.db, ins.id,
                                     [ins.db.items[ins.id] EXCEPT
                                         !.qr_url = ShortQrUrl(ins.id)])
                          h == InsertHistory(sav.db, ins.id, "", "checked_in",
                                             <<"Item created via shipment (Pallet",
                                               pallet_id>>, "", at)
                          c == InsertChange(h, ins.id, "created", "status", "",
                                            "Checked In", "", at)
                      IN  [ok |-> TRUE, db |-> c, id |-> ins.id]

\* the box loop, box_num .. num_boxes_int; an IntegrityError ends the
\* request and leaves what was written so far
RECURSIVE ApplyShipment(_, _, _, _, _, _)
ApplyShipment(db, plan, pallet_id, box_num, created_items, at) ==
    IF box_num > plan.num_boxes_int
    THEN [ok |-> TRUE, db |-> db, created_items |-> created_items]
    ELSE LET r == ShipmentBox(db, plan, pallet_id, box_num, at)
         IN  IF ~r.ok
             THEN [ok |-> FALSE, db |-> db, created_items |-> created_items]
             ELSE ApplyShipment(r.db, plan, pallet_id, box_num + 1,
                                Append(created_items, r.id), at)

\* the tables take the values of db
Commit(db) ==
    /\ items' = db.items
    /\ status_history' = db.status_history
    /\ change_log' = db.change_log
    /\ notification_log' = db.notification_log
    /\ next_id' = db.next_id
    /\ scan_log' = db.scan_log
    /\ print_jobs' = db.print_jobs
    /\ next_job' = db.next_job
    /\ deletion_log' = db.deletion_log
    /\ webhook' = db.webhook
    /\ fault' = db.fault
    /\ worker' = db.worker
    /\ printer' = db.printer

\* POST /add-shipment/
AddShipment(form) ==
    LET pallet_id == NextPalletId(DB)
        plan == ValidateShipment(form)
        res == ApplyShipment(DB, plan, pallet_id, 1, <<>>, now + 1)
    IN  /\ now < MaxTime
        /\ now' = now + 1
        /\ UNCHANGED reqs
        /\ IF plan.errors # <<>>
           THEN /\ response' = [op |-> "add_shipment", code |-> 200,
                                form |-> form, errors |-> plan.errors,
                                form_data |-> FormData(form, pallet_id),
                                pallet_id |-> pallet_id, items |-> <<>>]
                /\ UNCHANGED store
           ELSE /\ next_id + plan.num_boxes_int - 1 <= MaxItems
                /\ Commit(res.db)
                /\ response' = [op |-> "add_shipment",
                                code |-> IF res.ok THEN 200 ELSE 500,
                                form |-> form, errors |-> <<>>,
                                form_data |-> FormData(form, pallet_id),
                                pallet_id |-> pallet_id,
                                items |-> res.created_items]

-----------------------------------------------------------------------------
(* Item API: create_item_from_excel, bulk_create_items *)

\* faulty variant: the update branch puts the item back to the default status
ApiUpdateRow_ResetsStatus(existing, data) ==
    [existing EXCEPT
        !.content = data.content,
        !.damaged = data.damaged,
        !.location = data.location,
        !.description = data.description,
        !.status = "checked_in",
        !.barcode_payload =
            BarcodePayload(data.manufacturer, data.pallet_id, data.box_id),
        !.qr_url = ExternalQrUrl(
            BarcodePayload(data.manufacturer, data.pallet_id, data.box_id))]

\* the update branch of the API upsert: the row as it is saved
ApiUpdateRow(existing, data) ==
    [existing EXCEPT
        !.content = data.content,
        !.damaged = data.damaged,
        !.location = data.location,
        !.description = data.description,
        !.barcode_payload =
            BarcodePayload(data.manufacturer, data.pallet_id, data.box_id),
        !.qr_url = ExternalQrUrl(
            BarcodePayload(data.manufacturer, data.pallet_id, data.box_id))]

\* the create branch of the API upsert
ApiCreateRow(data) ==
    NewItem(data.manufacturer, data.pallet_id, data.box_id, "", data.content,
            data.damaged, data.location, data.description, "",
            BarcodePayload(data.manufacturer, data.pallet_id, data.box_id),
            ExternalQrUrl(
                BarcodePayload(data.manufacturer, data.pallet_id, data.box_id)))

\* the body shared by create_item_from_excel and one iteration of
\* bulk_create_items: 400 on a missing key field, else update or create;
\* a database error is caught and reported as 500
ApiUpsert(db, data) ==
    IF data.manufacturer = <<>> \/ data.pallet_id = <<>> \/ data.box_id = 0
    THEN [code |-> 400, db |-> db, id |-> 0]
    ELSE LET pk == FindItem(db, data.manufacturer, data.pallet_id, data.box_id)
             r == IF pk # 0
                  THEN SaveItem(db, pk, ApiUpdateRow(db.items[pk], data))
                  ELSE InsertItem(db, ApiCreateRow(data))
         IN  IF r.ok THEN [code |-> 200, db |-> r.db, id |-> r.id]
             ELSE [code |-> 500, db |-> db, id |-> 0]

\* POST create_item_from_excel
CreateItemFromExcel(data) ==
    LET r == ApiUpsert(DB, data)
    IN  /\ now < MaxTime
        /\ next_id <= MaxItems
        /\ now' = now + 1
        /\ Commit(r.db)
        /\ response' = [op |-> "create_item_from_excel", code |-> r.code,
                        item_id |-> r.id, data |-> data,
                        existed |-> FindItem(DB, data.manufacturer,
                                             data.pallet_id, data.box_id) # 0]
        /\ UNCHANGED reqs

\* the loop of bulk_create_items: every entry is tried, failures are
\* collected per index
RECURSIVE BulkCreateLoop(_, _, _, _)
BulkCreateLoop(db, items_data, created, errors) ==
    IF items_data = <<>>
    THEN [db |-> db, created |-> created, errors |-> errors]
    ELSE LET r == ApiUpsert(db, Head(items_data))
         IN  IF r.code = 200
             THEN BulkCreateLoop(r.db, Tail(items_data), Append(created, r.id),
                                 errors)
             ELSE BulkCreateLoop(db, Tail(items_data), created,
                                 Append(errors, r.code))

\* POST bulk_create_items
BulkCreateItems(items_data) ==
    LET r == BulkCreateLoop(DB, items_data, <<>>, <<>>)
    IN  /\ now < MaxTime
        /\ next_id + Len(items_data) - 1 <= MaxItems
        /\ now' = now + 1
        /\ UNCHANGED reqs
        /\ IF items_data = <<>>
           THEN /\ UNCHANGED store
                /\ response' = [op |-> "bulk_create_items", code |-> 400,
                                created |-> <<>>, errors |-> <<>>,
                                data |-> items_data]
           ELSE /\ Commit(r.db)
                /\ response' = [op |-> "bulk_create_items", code |-> 200,
                                created |-> r.created, errors |-> r.errors,
                                data |-> items_data]

-----------------------------------------------------------------------------
(* Status lifecycle: update_status, bulk_update_status, _send_notification *)

\* status_mapping of update_status: display label -> status code
StatusLabels ==
    {"Checked In", "Checked Out", "Tested", "Will Be Reused", "Recycling"}

status_mapping ==
    [l \in StatusLabels |->
        CASE l = "Checked In" -> "checked_in"
          [] l = "Checked Out" -> "checked_out"
          [] l = "Tested" -> "tested"
          [] l = "Will Be Reused" -> "will_be_reused"
          [] l = "Recycling" -> "recycling"]

\* faulty variant: the attribution is not cleared when the item leaves checked_out
TransitionRow_KeepsAttribution(item, status_value, changed_by, at) ==
    IF status_value = "checked_out"
    THEN [item EXCEPT !.status = status_value,
                      !.checked_out_by = changed_by,
                      !.checked_out_at = at]
    ELSE [item EXCEPT !.status = status_value]

\* the row after the status assignment and the checkout attribution block
TransitionRow(item, status_value, changed_by, at) ==
    LET old_status == item.status
    IN  IF status_value = "checked_out"
        THEN [item EXCEPT !.status = status_value,
                          !.checked_out_by = changed_by,
                          !.checked_out_at = at]
        ELSE IF old_status = "checked_out"
        THEN [item EXCEPT !.status = status_value,
                          !.checked_out_by = "",
                          !.checked_out_at = None]
        ELSE [item EXCEPT !.status = status_value]

\* faulty variant: the damaged rule is tried before the checkout rule
NotificationType_DamagedFirst(item, old_status, new_status) ==
    IF item.damaged /\ old_status # new_status THEN "damaged"
    ELSE IF new_status = "checked_out" THEN "checkout"
    ELSE IF old_status # new_status THEN "status_change"
    ELSE ""

\* the rule of _send_notification that decides the notification type,
\* "" when nothing is sent
NotificationType(item, old_status, new_status) ==
    IF new_status = "checked_out" THEN "checkout"
    ELSE IF item.damaged /\ old_status # new_status THEN "damaged"
    ELSE IF old_status # new_status THEN "status_change"
    ELSE ""

\* faulty variant: the call is not wrapped, a failed delivery raises
PostWebhook_Propagates(db) == [db EXCEPT !.raised = (db.webhook = "down")]

\* try: requests.post(webhook_url, ..., timeout=5) except Exception: pass
\* whether the endpoint answers ("up") or the call fails or times out
\* ("down"), nothing reaches the caller
PostWebhook(db) == db

\* _send_notification: the NotificationLog row, then the webhook call when
\* NOTIFICATION_WEBHOOK_URL is set
SendNotification(db, pk, item, old_status, new_status, changed_by, at) ==
    LET notification_type == NotificationType(item, old_status, new_status)
        logged == [db EXCEPT !.notification_log = Append(db.notification_log,
                      [item |-> pk, notification_type |-> notification_type,
                       sent_to |-> IF db.webhook = "unset" THEN "logged_only"
                                   ELSE "webhook_url",
                       changed_by |-> changed_by, sent_at |-> at])]
    IN  IF notification_type = "" THEN db
        ELSE IF db.webhook = "unset" THEN logged
        ELSE PostWebhook(logged)

\* faulty variant: the old status is read after the new one is assigned
Transition_OldStatusLate(db, pk, status_value, notes, changed_by, at) ==
    LET row == TransitionRow(db.items[pk], status_value, changed_by, at)
        old_status == row.status
        sav == SaveItem(db, pk, row)
        h == InsertHistory(sav.db, pk, old_status, status_value, notes,
                           changed_by, at)
    IN  IF db.fault = <<pk, "save">> THEN [db EXCEPT !.raised = TRUE]
        ELSE IF db.fault = <<pk, "history">>
        THEN [sav.db EXCEPT !.raised = TRUE]
        ELSE SendNotification(h, pk, row, old_status, status_value,
                              changed_by, at)

\* faulty variant: no history row when the status does not change
Transition_SkipsUnchanged(db, pk, status_value, notes, changed_by, at) ==
    LET old_status == db.items[pk].status
        row == TransitionRow(db.items[pk], status_value, changed_by, at)
        sav == SaveItem(db, pk, row)
        h == IF old_status = status_value THEN sav.db
             ELSE InsertHistory(sav.db, pk, old_status, status_value, notes,
                                changed_by, at)
    IN  SendNotification(h, pk, row, old_status, status_value, changed_by, at)

\* save, history row and notification of one status transition; a
\* statement that fails raises and leaves what was written before it
Transition(db, pk, status_value, notes, changed_by, at) ==
    LET old_status == db.items[pk].status
        row == TransitionRow(db.items[pk], status_value, changed_by, at)
        sav == SaveItem(db, pk, row)
        h == InsertHistory(sav.db, pk, old_status, status_value, notes,
                           changed_by, at)
    IN  IF db.fault = <<pk, "save">> THEN [db EXCEPT !.raised = TRUE]
        ELSE IF db.fault = <<pk, "history">>
        THEN [sav.db EXCEPT !.raised = TRUE]
        ELSE SendNotification(h, pk, row, old_status, status_value,
                              changed_by, at)

\* the deployment sets or clears NOTIFICATION_WEBHOOK_URL, or the endpoint
\* behind it starts or stops answering
SetWebhook(w) ==
    /\ webhook # w
    /\ webhook' = w
    /\ UNCHANGED <<items, status_history, change_log, notification_log,
                   next_id, scan_log, print_jobs, next_job, deletion_log,
                   fault, worker, printer, now, response, reqs>>

\* the database starts to fail one statement on one row (a lock timeout, a
\* lost connection), or stops failing
InjectFault(f) ==
    /\ fault # f
    /\ fault' = f
    /\ UNCHANGED <<items, status_history, change_log, notification_log,
                   next_id, scan_log, print_jobs, next_job, deletion_log,
                   webhook, worker, printer, now, response, reqs>>

\* POST update_status
UpdateStatus(item_id, new_status, notes, changed_by) ==
    /\ now < MaxTime
    /\ now' = now + 1
    /\ UNCHANGED reqs
    /\ IF new_status \notin StatusLabels
       THEN /\ UNCHANGED store
            /\ response' = [op |-> "update_status", code |-> 400,
                            error |-> "Invalid status",
                            item_id |-> item_id, status |-> new_status,
                            notes |-> notes, changed_by |-> changed_by]
       ELSE IF item_id \notin DOMAIN items
       THEN /\ UNCHANGED store
            /\ response' = [op |-> "update_status", code |-> 500,
                            error |-> "No InventoryItem matches the given query.",
                            item_id |-> item_id, status |-> new_status,
                            notes |-> notes, changed_by |-> changed_by]
       ELSE LET t == Transition(DB, item_id, status_mapping[new_status], notes,
                               changed_by, now + 1)
            IN  /\ Commit(t)
                /\ response' = [op |-> "update_status",
                                code |-> IF t.raised THEN 500 ELSE 200,
                                item_id |-> item_id, status |-> new_status,
                                notes |-> notes, changed_by |-> changed_by]

\* faulty variant: the loop saves and writes the history row but sends no
\* notification
RECURSIVE BulkStatusLoop_NoNotification(_, _, _, _, _, _)
BulkStatusLoop_NoNotification(db, ids, new_status, notes, changed_by, at) ==
    IF ids = {} THEN db
    ELSE LET pk == CHOOSE j \in ids : \A k \in ids : j <= k
             row == TransitionRow(db.items[pk], new_status, changed_by, at)
             sav == SaveItem(db, pk, row)
         IN  BulkStatusLoop_NoNotification(
                 InsertHistory(sav.db, pk, db.items[pk].status, new_status,
                               IF notes = "" THEN "Bulk status update"
                               ELSE notes, changed_by, at),
                 ids \ {pk}, new_status, notes, changed_by, at)

\* the loop of bulk_update_status over the rows whose id is listed
RECURSIVE BulkStatusLoop(_, _, _, _, _, _)
BulkStatusLoop(db, ids, new_status, notes, changed_by, at) ==
    IF ids = {} \/ db.raised THEN db
    ELSE LET pk == CHOOSE j \in ids : \A k \in ids : j <= k
         IN  BulkStatusLoop(
                 Transition(db, pk, new_status,
                            IF notes = "" THEN "Bulk status update" ELSE notes,
                            changed_by, at),
                 ids \ {pk}, new_status, notes, changed_by, at)

\* faulty variant: the status is applied without the test against STATUS_CHOICES
BulkUpdateStatus_NoStatusCheck(item_ids, new_status, notes, changed_by) ==
    /\ now < MaxTime
    /\ now' = now + 1
    /\ UNCHANGED reqs
    /\ IF item_ids = {} \/ new_status = ""
       THEN /\ UNCHANGED store
            /\ response' = [op |-> "bulk_update_status", code |-> 400,
                            error |-> "Missing item_ids or status",
                            item_ids |-> item_ids, status |-> new_status,
                            changed_by |-> changed_by,
                            updated_count |-> 0]
       ELSE LET t == BulkStatusLoop(DB, item_ids \cap DOMAIN items, new_status,
                                   notes, changed_by, now + 1)
            IN  /\ Commit(t)
                /\ response' = [op |-> "bulk_update_status",
                                code |-> IF t.raised THEN 500 ELSE 200,
                                item_ids |-> item_ids, status |-> new_status,
                            changed_by |-> changed_by,
                                updated_count |->
                                    IF t.raised THEN 0
                                    ELSE Cardinality(item_ids \cap DOMAIN items)]

\* POST bulk_update_status
BulkUpdateStatus(item_ids, new_status, notes, changed_by) ==
    /\ now < MaxTime
    /\ now' = now + 1
    /\ UNCHANGED reqs
    /\ IF item_ids = {} \/ new_status = ""
       THEN /\ UNCHANGED store
            /\ response' = [op |-> "bulk_update_status", code |-> 400,
                            error |-> "Missing item_ids or status",
                            item_ids |-> item_ids, status |-> new_status,
                            changed_by |-> changed_by,
                            updated_count |-> 0]
       ELSE IF new_status \notin STATUS_CHOICES
       THEN /\ UNCHANGED store
            /\ response' = [op |-> "bulk_update_status", code |-> 400,
                            error |-> "Invalid status",
                            item_ids |-> item_ids, status |-> new_status,
                            changed_by |-> changed_by,
                            updated_count |-> 0]
       ELSE LET t == BulkStatusLoop(DB, item_ids \cap DOMAIN items, new_status,
                                   notes, changed_by, now + 1)
            IN  /\ Commit(t)
                /\ response' = [op |-> "bulk_update_status",
                                code |-> IF t.raised THEN 500 ELSE 200,
                                item_ids |-> item_ids, status |-> new_status,
                            changed_by |-> changed_by,
                                updated_count |->
                                    IF t.raised THEN 0
                                    ELSE Cardinality(item_ids \cap DOMAIN items)]

\* faulty variant: the save also stamps the row with the time of the edit
HistoryNotesRow_Restamps(entry, notes, at) ==
    [entry EXCEPT !.notes = notes, !.changed_at = at]

\* entry.notes = notes; changed_at is auto_now_add and keeps its value
HistoryNotesRow(entry, notes, at) == [entry EXCEPT !.notes = notes]

\* POST update_history_notes: the StatusHistory primary key is the row's
\* position; Http404 is caught by the handler's except clause
UpdateHistoryNotes(history_id, notes) ==
    /\ now < MaxTime
    /\ now' = now + 1
    /\ UNCHANGED reqs
    /\ IF history_id \notin DOMAIN status_history
       THEN /\ UNCHANGED store
            /\ response' = [op |-> "update_history_notes", code |-> 500,
                            history_id |-> history_id, notes |-> notes]
       ELSE /\ Commit([DB EXCEPT !.status_history[history_id] =
                          HistoryNotesRow(@, notes, now + 1)])
            /\ response' = [op |-> "update_history_notes", code |-> 200,
                            history_id |-> history_id, notes |-> notes]

-----------------------------------------------------------------------------
(* Field edits: edit_item, bulk_edit, archive_item, bulk_archive *)

YesNo(b) == IF b THEN "Yes" ELSE "No"

\* int(data['content']): a JSON number is taken as it is, a JSON string is
\* parsed
ContentValue(v) ==
    IF v[1] = "int" THEN [ok |-> TRUE, val |-> v[2]] ELSE ParseInt(v[2])

\* old_vals / new_vals of edit_item: the logged fields, stringified
LoggedFields ==
    <<"content", "damaged", "location", "description", "project_number",
      "manufacturer", "tags">>

LoggedValue(item, field_name) ==
    CASE field_name = "content" -> IntToText(item.content)
      [] field_name = "damaged" -> YesNo(item.damaged)
      [] field_name = "location" -> item.location
      [] field_name = "description" -> item.description
      [] field_name = "project_number" -> item.project_number
      [] field_name = "manufacturer" -> item.manufacturer
      [] field_name = "tags" -> item.tags

Has(data, key) == key \in DOMAIN data

\* faulty variant: a manufacturer edit leaves the barcode payload as it was
EditFieldsRow_StalePayload(item, pk, data) ==
    LET new_mfr == IF Has(data, "manufacturer")
                   THEN Strip(data["manufacturer"]) ELSE <<>>
        mfr_changed == new_mfr # <<>> /\ item.manufacturer # new_mfr
    IN  [item EXCEPT
            !.content = IF Has(data, "content")
                        THEN ContentValue(data["content"]).val ELSE @,
            !.damaged = IF Has(data, "damaged") THEN data["damaged"] ELSE @,
            !.location = IF Has(data, "location") THEN data["location"] ELSE @,
            !.description = IF Has(data, "description") THEN data["description"] ELSE @,
            !.project_number = IF Has(data, "project_number")
                               THEN data["project_number"] ELSE @,
            !.manufacturer = IF new_mfr # <<>> THEN new_mfr ELSE @,
            !.tags = IF Has(data, "tags") THEN data["tags"] ELSE @]

\* faulty variant: a full replace, a description the patch does not name is blanked
EditFieldsRow_FullReplace(item, pk, data) ==
    LET new_mfr == IF Has(data, "manufacturer")
                   THEN Strip(data["manufacturer"]) ELSE <<>>
        mfr_changed == new_mfr # <<>> /\ item.manufacturer # new_mfr
    IN  [item EXCEPT
            !.content = IF Has(data, "content")
                        THEN ContentValue(data["content"]).val ELSE @,
            !.damaged = IF Has(data, "damaged") THEN data["damaged"] ELSE @,
            !.location = IF Has(data, "location") THEN data["location"] ELSE @,
            !.description = IF Has(data, "description") THEN data["description"] ELSE "",
            !.project_number = IF Has(data, "project_number")
                               THEN data["project_number"] ELSE @,
            !.manufacturer = IF new_mfr # <<>> THEN new_mfr ELSE @,
            !.barcode_payload =
                IF mfr_changed
                THEN BarcodePayload(new_mfr, item.pallet_id, item.box_id)
                ELSE @,
            !.qr_url = IF mfr_changed THEN ShortQrUrl(pk) ELSE @,
            !.tags = IF Has(data, "tags") THEN data["tags"] ELSE @]

\* the field assignments of edit_item: each field the patch names takes the
\* value given; a manufacturer that differs also rewrites payload and QR link
EditFieldsRow(item, pk, data) ==
    LET new_mfr == IF Has(data, "manufacturer")
                   THEN Strip(data["manufacturer"]) ELSE <<>>
        mfr_changed == new_mfr # <<>> /\ item.manufacturer # new_mfr
    IN  [item EXCEPT
            !.content = IF Has(data, "content")
                        THEN ContentValue(data["content"]).val ELSE @,
            !.damaged = IF Has(data, "damaged") THEN data["damaged"] ELSE @,
            !.location = IF Has(data, "location") THEN data["location"] ELSE @,
            !.description = IF Has(data, "description") THEN data["description"] ELSE @,
            !.project_number = IF Has(data, "project_number")
                               THEN data["project_number"] ELSE @,
            !.manufacturer = IF new_mfr # <<>> THEN new_mfr ELSE @,
            !.barcode_payload =
                IF mfr_changed
                THEN BarcodePayload(new_mfr, item.pallet_id, item.box_id)
                ELSE @,
            !.qr_url = IF mfr_changed THEN ShortQrUrl(pk) ELSE @,
            !.tags = IF Has(data, "tags") THEN data["tags"] ELSE @]

\* whether the status block of edit_item changes the status
EditStatusChanged(item, data) ==
    /\ Has(data, "status")
    /\ data["status"] \in STATUS_CHOICES
    /\ data["status"] # item.status

\* faulty variant: a row for every logged field, changed or not
RECURSIVE LogFieldChanges_LogsAll(_, _, _, _, _, _, _)
LogFieldChanges_LogsAll(db, pk, old_item, new_item, k, changed_by, at) ==
    IF k > Len(LoggedFields) THEN db
    ELSE LET f == LoggedFields[k]
         IN  LogFieldChanges_LogsAll(
                 InsertChange(db, pk, "field_edit", f, LoggedValue(old_item, f),
                              LoggedValue(new_item, f), changed_by, at),
                 pk, old_item, new_item, k + 1, changed_by, at)

\* the ChangeLog loop of edit_item: one row per logged field whose
\* stringified value differs
RECURSIVE LogFieldChanges(_, _, _, _, _, _, _)
LogFieldChanges(db, pk, old_item, new_item, k, changed_by, at) ==
    IF k > Len(LoggedFields) THEN db
    ELSE LET f == LoggedFields[k]
             old_val == LoggedValue(old_item, f)
             new_val == LoggedValue(new_item, f)
         IN  LogFieldChanges(
                 IF old_val # new_val
                 THEN InsertChange(db, pk, "field_edit", f, old_val, new_val,
                                   changed_by, at)
                 ELSE db,
                 pk, old_item, new_item, k + 1, changed_by, at)

\* faulty variant: the content is parsed after the other fields are saved
EditItemBody_SavesBeforeCheck(db, pk, data, changed_by, notes, at) ==
    LET item == db.items[pk]
        old_status == item.status
        edited == EditFieldsRow(item, pk, data)
        status_changed == EditStatusChanged(item, data)
        row == IF status_changed
               THEN TransitionRow(edited, data["status"], changed_by, at)
               ELSE edited
        sav == SaveItem(db, pk, row)
        h == IF status_changed
             THEN SendNotification(
                      InsertHistory(sav.db, pk, old_status, row.status, notes,
                                    changed_by, at),
                      pk, row, old_status, row.status, changed_by, at)
             ELSE sav.db
    IN  IF Has(data, "content") /\ ~ContentValue(data["content"]).ok
        THEN [code |-> 400,
              db |-> SaveItem(db, pk,
                         EditFieldsRow(item, pk,
                             [f \in (DOMAIN data) \ {"content"} |-> data[f]])).db,
              status_changed |-> FALSE]
        ELSE IF ~sav.ok
        THEN [code |-> 500, db |-> db, status_changed |-> FALSE]
        ELSE IF h.raised
        THEN [code |-> 500, db |-> h, status_changed |-> FALSE]
        ELSE [code |-> 200,
              db |-> LogFieldChanges(h, pk, item, row, 1, changed_by, at),
              status_changed |-> status_changed]

\* edit_item on an existing row: 400 before anything is written when the
\* content does not parse, 500 when the save fails
EditItemBody(db, pk, data, changed_by, notes, at) ==
    LET item == db.items[pk]
        old_status == item.status
        edited == EditFieldsRow(item, pk, data)
        status_changed == EditStatusChanged(item, data)
        row == IF status_changed
               THEN TransitionRow(edited, data["status"], changed_by, at)
               ELSE edited
        sav == SaveItem(db, pk, row)
        h == IF status_changed
             THEN SendNotification(
                      InsertHistory(sav.db, pk, old_status, row.status, notes,
                                    changed_by, at),
                      pk, row, old_status, row.status, changed_by, at)
             ELSE sav.db
    IN  IF Has(data, "content") /\ ~ContentValue(data["content"]).ok
        THEN [code |-> 400, db |-> db, status_changed |-> FALSE]
        ELSE IF ~sav.ok
        THEN [code |-> 500, db |-> db, status_changed |-> FALSE]
        ELSE IF h.raised
        THEN [code |-> 500, db |-> h, status_changed |-> FALSE]
        ELSE [code |-> 200,
              db |-> LogFieldChanges(h, pk, item, row, 1, changed_by, at),
              status_changed |-> status_changed]

\* POST edit_item
EditItem(item_id, data, changed_by, notes) ==
    /\ now < MaxTime
    /\ now' = now + 1
    /\ UNCHANGED reqs
    /\ IF item_id \notin DOMAIN items
       THEN /\ UNCHANGED store
            /\ response' = [op |-> "edit_item", code |-> 500,
                            item_id |-> item_id, data |-> data,
                            changed_by |-> changed_by, notes |-> notes,
                            status_changed |-> FALSE]
       ELSE LET r == EditItemBody(DB, item_id, data, changed_by, notes, now + 1)
            IN  /\ Commit(r.db)
                /\ response' = [op |-> "edit_item", code |-> r.code,
                                item_id |-> item_id, data |-> data,
                                changed_by |-> changed_by, notes |-> notes,
                                status_changed |-> r.status_changed]

\* faulty variant: no early return when the item is in the requested state
ArchiveItem_NoEarlyReturn(item_id, archive) ==
    /\ now < MaxTime
    /\ now' = now + 1
    /\ UNCHANGED reqs
    /\ IF item_id \notin DOMAIN items
       THEN /\ UNCHANGED store
            /\ response' = [op |-> "archive_item", code |-> 500,
                            item_id |-> item_id, archive |-> archive]
       ELSE LET was_archived == items[item_id].archived
                sav == SaveItem(DB, item_id,
                           [items[item_id] EXCEPT
                               !.archived = archive,
                               !.archived_at = IF archive THEN now + 1 ELSE None])
            IN  /\ Commit(InsertChange(sav.db, item_id, "field_edit", "archived",
                                       YesNo(was_archived), YesNo(archive), "",
                                       now + 1))
                /\ response' = [op |-> "archive_item", code |-> 200,
                                item_id |-> item_id, archive |-> archive]

\* POST archive_item
ArchiveItem(item_id, archive) ==
    /\ now < MaxTime
    /\ now' = now + 1
    /\ UNCHANGED reqs
    /\ IF item_id \notin DOMAIN items
       THEN /\ UNCHANGED store
            /\ response' = [op |-> "archive_item", code |-> 500,
                            item_id |-> item_id, archive |-> archive]
       ELSE IF items[item_id].archived = archive
       THEN /\ UNCHANGED store
            /\ response' = [op |-> "archive_item", code |-> 200,
                            item_id |-> item_id, archive |-> archive]
       ELSE LET was_archived == items[item_id].archived
                sav == SaveItem(DB, item_id,
                           [items[item_id] EXCEPT
                               !.archived = archive,
                               !.archived_at = IF archive THEN now + 1 ELSE None])
            IN  /\ Commit(InsertChange(sav.db, item_id, "field_edit", "archived",
                                       YesNo(was_archived), YesNo(archive), "",
                                       now + 1))
                /\ response' = [op |-> "archive_item", code |-> 200,
                                item_id |-> item_id, archive |-> archive]

\* the ChangeLog loop of bulk_archive over the rows that were changed
RECURSIVE BulkArchiveLog(_, _, _, _)
BulkArchiveLog(db, ids, archive, at) ==
    IF ids = {} \/ db.raised THEN db
    ELSE LET pk == CHOOSE j \in ids : \A k \in ids : j <= k
         IN  BulkArchiveLog(
                 IF db.fault = <<pk, "log">> THEN [db EXCEPT !.raised = TRUE]
                 ELSE InsertChange(db, pk, "field_edit", "archived",
                                   YesNo(~archive), YesNo(archive), "", at),
                 ids \ {pk}, archive, at)

\* POST bulk_archive
BulkArchive(item_ids, archive) ==
    LET changed_ids == {j \in item_ids \cap DOMAIN items :
                            items[j].archived # archive}
        updated == [DB EXCEPT !.items =
                       [j \in DOMAIN items |->
                           IF j \in changed_ids
                           THEN [items[j] EXCEPT
                                    !.archived = archive,
                                    !.archived_at =
                                        IF archive THEN now + 1 ELSE None]
                           ELSE items[j]]]
        logged == BulkArchiveLog(updated, changed_ids, archive, now + 1)
    IN  /\ now < MaxTime
        /\ now' = now + 1
        /\ UNCHANGED reqs
        /\ Commit(logged)
        /\ response' = [op |-> "bulk_archive",
                        code |-> IF logged.raised THEN 500 ELSE 200,
                        item_ids |-> item_ids, archive |-> archive,
                        updated_count |->
                            IF logged.raised THEN 0
                            ELSE Cardinality(changed_ids)]

\* one iteration of the loop of bulk_edit: the ChangeLog rows are written
\* while the fields are assigned, the row is saved last
BulkEditOne(db, pk, fields, changed_by, at) ==
    LET item == db.items[pk]
        set_loc == Has(fields, "location") /\ fields["location"] # ""
        set_tags == Has(fields, "tags") /\ fields["tags"] # ""
        r1 == IF set_loc THEN [item EXCEPT !.location = fields["location"]]
              ELSE item
        d1 == IF set_loc /\ item.location # r1.location
              THEN InsertChange(db, pk, "field_edit", "location", item.location,
                                r1.location, changed_by, at)
              ELSE db
        r2 == IF Has(fields, "damaged")
              THEN [r1 EXCEPT !.damaged = fields["damaged"]] ELSE r1
        d2 == IF YesNo(r1.damaged) # YesNo(r2.damaged)
              THEN InsertChange(d1, pk, "field_edit", "damaged",
                                YesNo(r1.damaged), YesNo(r2.damaged),
                                changed_by, at)
              ELSE d1
        r3 == IF set_tags THEN [r2 EXCEPT !.tags = fields["tags"]] ELSE r2
        d3 == IF set_tags /\ r2.tags # r3.tags
              THEN InsertChange(d2, pk, "field_edit", "tags", r2.tags, r3.tags,
                                changed_by, at)
              ELSE d2
    IN  IF db.fault = <<pk, "log">> /\ d3 # db
        THEN [db EXCEPT !.raised = TRUE]
        ELSE IF db.fault = <<pk, "save">> THEN [d3 EXCEPT !.raised = TRUE]
        ELSE SaveItem(d3, pk, r3).db

RECURSIVE BulkEditLoop(_, _, _, _, _)
BulkEditLoop(db, ids, fields, changed_by, at) ==
    IF ids = {} \/ db.raised THEN db
    ELSE LET pk == CHOOSE j \in ids : \A k \in ids : j <= k
         IN  BulkEditLoop(BulkEditOne(db, pk, fields, changed_by, at),
                          ids \ {pk}, fields, changed_by, at)

\* POST bulk_edit
BulkEdit(item_ids, fields, changed_by) ==
    /\ now < MaxTime
    /\ now' = now + 1
    /\ UNCHANGED reqs
    /\ IF item_ids = {} \/ DOMAIN fields = {}
       THEN /\ UNCHANGED store
            /\ response' = [op |-> "bulk_edit", code |-> 400,
                            item_ids |-> item_ids, fields |-> fields,
                            changed_by |-> changed_by, updated_count |-> 0]
       ELSE LET t == BulkEditLoop(DB, item_ids \cap DOMAIN items, fields,
                                 changed_by, now + 1)
            IN  /\ Commit(t)
                /\ response' = [op |-> "bulk_edit",
                                code |-> IF t.raised THEN 500 ELSE 200,
                                item_ids |-> item_ids, fields |-> fields,
                                changed_by |-> changed_by,
                                updated_count |->
                                    IF t.raised THEN 0
                                    ELSE Cardinality(item_ids \cap DOMAIN items)]

-----------------------------------------------------------------------------
(* Reports: overdue_items_api *)

OverdueDays == 7

\* faulty variant: archived items are listed too
OverdueItems_ListsArchived(db, at) ==
    LET cutoff == at - OverdueDays
    IN  {j \in DOMAIN db.items :
            /\ db.items[j].status = "checked_out"
            /\ db.items[j].checked_out_at # None
            /\ db.items[j].checked_out_at < cutoff}

\* the queryset of overdue_items_api, as primary keys
OverdueItems(db, at) ==
    LET cutoff == at - OverdueDays
    IN  {j \in DOMAIN db.items :
            /\ db.items[j].status = "checked_out"
            /\ db.items[j].checked_out_at # None
            /\ db.items[j].checked_out_at < cutoff
            /\ ~db.items[j].archived}

\* GET overdue_items_api
OverdueItemsApi ==
    /\ UNCHANGED <<store, now, reqs>>
    /\ response' = [op |-> "overdue_items", code |-> 200, at |-> now,
                    overdue_items |-> OverdueItems(DB, now),
                    count |-> Cardinality(OverdueItems(DB, now))]

\* days go by without a request
Wait(days) ==
    /\ now <= MaxTime
    /\ now' = now + days
    /\ UNCHANGED <<store, response, reqs>>

-----------------------------------------------------------------------------
(* Print jobs: create_print_jobs, update_print_job_status *)

\* the loop of create_print_jobs: one pending PrintJob per matching item
RECURSIVE CreateJobsLoop(_, _)
CreateJobsLoop(db, ids) ==
    IF ids = {} THEN db
    ELSE LET pk == CHOOSE j \in ids : \A k \in ids : j <= k
         IN  CreateJobsLoop(
                 [db EXCEPT !.print_jobs = db.print_jobs @@
                                (db.next_job :>
                                    [item |-> pk, status |-> "pending",
                                     error_message |-> "", printed_at |-> None]),
                            !.next_job = db.next_job + 1],
                 ids \ {pk})

\* POST create_print_jobs
CreatePrintJobs(item_ids) ==
    /\ now < MaxTime
    /\ now' = now + 1
    /\ UNCHANGED reqs
    /\ IF item_ids = {} \/ item_ids \cap DOMAIN items = {}
       THEN /\ UNCHANGED store
            /\ response' = [op |-> "create_print_jobs",
                            code |-> IF item_ids = {} THEN 400 ELSE 404,
                            item_ids |-> item_ids]
       ELSE /\ Commit(CreateJobsLoop(DB, item_ids \cap DOMAIN items))
            /\ response' = [op |-> "create_print_jobs", code |-> 200,
                            item_ids |-> item_ids]

\* job.status = new_status, with printed_at or error_message, and job.save()
SetPrintJobStatus(db, job_id, new_status, error, at) ==
    [db EXCEPT !.print_jobs[job_id] =
        [@ EXCEPT !.status = new_status,
                  !.printed_at = IF new_status = "printed" THEN at ELSE @,
                  !.error_message = IF new_status = "failed" THEN error
                                    ELSE @]]

\* PATCH update_print_job_status, sent by the print worker with or without
\* the bearer token of PRINT_API_SECRET
UpdatePrintJobStatus(job_id, new_status, error, authorized) ==
    /\ now < MaxPrintTime
    /\ now' = now + 1
    /\ UNCHANGED reqs
    /\ LET code == IF ~authorized THEN 401
                   ELSE IF new_status \notin {"printed", "failed"} THEN 400
                   ELSE IF job_id \notin DOMAIN print_jobs THEN 500
                   ELSE 200
       IN  /\ response' = [op |-> "update_print_job_status", code |-> code,
                           job_id |-> job_id, status |-> new_status,
                           error |-> error]
           /\ IF code # 200 THEN UNCHANGED store
              ELSE Commit(SetPrintJobStatus(DB, job_id, new_status, error,
                                            now + 1))

-----------------------------------------------------------------------------
(* Print worker: print_worker.py and pending_print_jobs. The worker is one
   process; each of its steps is a call of the API handled whole. *)

\* pending_print_jobs: the ids of the pending jobs, ordered by created_at
RECURSIVE PendingPrintJobs(_, _)
PendingPrintJobs(db, from) ==
    IF from >= db.next_job THEN <<>>
    ELSE (IF from \in DOMAIN db.print_jobs /\
             db.print_jobs[from].status = "pending"
          THEN <<from>> ELSE <<>>) \o PendingPrintJobs(db, from + 1)

\* one round of run_worker up to the job loop: fetch_pending_jobs returns
\* the list of the API, or [] when the call fails
Worker_Poll(fetch_ok) ==
    LET jobs == IF fetch_ok THEN PendingPrintJobs(DB, 1) ELSE <<>>
    IN  /\ worker.pc = "sleep"
        /\ UNCHANGED <<now, reqs>>
        /\ response' = IF fetch_ok
                       THEN [op |-> "pending_print_jobs", code |-> 200,
                             jobs |-> jobs]
                       ELSE response
        /\ Commit([DB EXCEPT !.worker =
                       IF jobs = <<>> THEN worker
                       ELSE [pc |-> "jobs", jobs |-> jobs]])

\* process_job on the next job of the list: download_label, send_to_printer
\* and update_job_status, which logs a failed call and goes on
Worker_ProcessJob(download_ok, print_ok, report_ok) ==
    LET job_id == Head(worker.jobs)
        status == IF download_ok /\ print_ok THEN "printed" ELSE "failed"
        error == IF ~download_ok THEN "Failed to download label image"
                 ELSE IF ~print_ok THEN "printer error" ELSE ""
        code == IF job_id \in DOMAIN print_jobs THEN 200 ELSE 500
        rest == Tail(worker.jobs)
        sent == [DB EXCEPT
                    !.printer = IF download_ok /\ print_ok
                                THEN Append(@, job_id) ELSE @,
                    !.worker = [pc |-> IF rest = <<>> THEN "sleep" ELSE "jobs",
                                jobs |-> rest]]
    IN  /\ worker.pc = "jobs"
        /\ now < MaxPrintTime
        /\ now' = now + 1
        /\ UNCHANGED reqs
        /\ response' = IF report_ok
                       THEN [op |-> "update_print_job_status", code |-> code,
                             job_id |-> job_id, status |-> status,
                             error |-> error]
                       ELSE response
        /\ Commit(IF report_ok /\ code = 200
                  THEN SetPrintJobStatus(sent, job_id, status, error, now + 1)
                  ELSE sent)

-----------------------------------------------------------------------------
(* Pallet deletion: the handler /api/delete-pallet/ is routed in urls.py; its
   body is taken from the specification, the cascade from the foreign keys
   of models.py *)

\* faulty variant: the StatusHistory rows of the deleted items stay
CascadeDelete_KeepsHistory(db, ids) ==
    LET Kept(row) == row.item \notin ids
    IN  [db EXCEPT
            !.items = [j \in (DOMAIN db.items) \ ids |-> db.items[j]],
            !.change_log = SelectSeq(db.change_log, Kept),
            !.notification_log = SelectSeq(db.notification_log, Kept),
            !.scan_log = SelectSeq(db.scan_log, Kept),
            !.print_jobs = [j \in {k \in DOMAIN db.print_jobs :
                                      Kept(db.print_jobs[k])} |->
                               db.print_jobs[j]]]

\* DELETE of the items ids: every table whose foreign key to InventoryItem
\* is on_delete=CASCADE loses the rows of those items
CascadeDelete(db, ids) ==
    LET Kept(row) == row.item \notin ids
    IN  [db EXCEPT
            !.items = [j \in (DOMAIN db.items) \ ids |-> db.items[j]],
            !.status_history = SelectSeq(db.status_history, Kept),
            !.change_log = SelectSeq(db.change_log, Kept),
            !.notification_log = SelectSeq(db.notification_log, Kept),
            !.scan_log = SelectSeq(db.scan_log, Kept),
            !.print_jobs = [j \in {k \in DOMAIN db.print_jobs :
                                      Kept(db.print_jobs[k])} |->
                               db.print_jobs[j]]]

\* deletePallet(manufacturer, palletId, actor, reason): the DeletionLog
\* snapshot and the cascading delete in one transaction
DeletePallet(manufacturer, pallet_id, deleted_by, reason) ==
    LET ids == {j \in DOMAIN items :
                   /\ items[j].manufacturer = manufacturer
                   /\ items[j].pallet_id = pallet_id}
        snapshot == [manufacturer |-> manufacturer, pallet_id |-> pallet_id,
                     item_count |-> Cardinality(ids), item_ids |-> ids,
                     deleted_by |-> deleted_by, deleted_at |-> now + 1,
                     details |-> reason]
        code == IF ids = {} THEN 404
                ELSE IF fault = <<0, "snapshot">> THEN 500
                ELSE 200
    IN  /\ now < MaxTime
        /\ now' = now + 1
        /\ UNCHANGED reqs
        /\ response' = [op |-> "delete_pallet", code |-> code,
                        manufacturer |-> manufacturer,
                        pallet_id |-> pallet_id, deleted_by |-> deleted_by]
        /\ IF code # 200 THEN UNCHANGED store
           ELSE Commit(CascadeDelete(
                    [DB EXCEPT !.deletion_log = Append(@, snapshot)], ids))

-----------------------------------------------------------------------------
(* Scanning: scanner_landing *)

\* the percent escapes the payloads of this model can hold
PercentCodes ==
    (<<"2", "0">> :> " ") @@ (<<"2", "5">> :> "%") @@ (<<"3", "D">> :> "=")
    @@ (<<"4", "1">> :> "A") @@ (<<"7", "C">> :> "|")

\* urllib.parse.unquote: every %XX becomes the character it encodes, all
\* other text stays
RECURSIVE Unquote(_)
Unquote(s) ==
    IF s = <<>> THEN <<>>
    ELSE IF s[1] = "%" /\ Len(s) >= 3 /\ <<s[2], s[3]>> \in DOMAIN PercentCodes
    THEN <<PercentCodes[<<s[2], s[3]>>]>> \o Unquote(SubSeq(s, 4, Len(s)))
    ELSE <<s[1]>> \o Unquote(Tail(s))

\* part.split('=', 1) of a part that holds "=", key and value stripped
SplitEquals(part) ==
    LET at == {k \in DOMAIN part : part[k] = "="}
        cut == CHOOSE k \in at : \A l \in at : k <= l
    IN  IF at = {} THEN [ok |-> FALSE, key |-> <<>>, value |-> <<>>]
        ELSE [ok |-> TRUE, key |-> Strip(SubSeq(part, 1, cut - 1)),
              value |-> Strip(SubSeq(part, cut + 1, Len(part)))]

\* str.split(' | '): the pieces between the separators, left to right
RECURSIVE SplitBar(_)
SplitBar(s) ==
    LET at == {k \in 1..(Len(s) - 2) : SubSeq(s, k, k + 2) = <<" ", "|", " ">>}
        cut == CHOOSE k \in at : \A l \in at : k <= l
    IN  IF at = {} THEN <<s>>
        ELSE <<SubSeq(s, 1, cut - 1)>> \o SplitBar(SubSeq(s, cut + 3, Len(s)))

\* data_dict.get(key, ''): the value of the last part with that key
DataDictGet(parts, key) ==
    LET hits == {k \in DOMAIN parts :
                    SplitEquals(parts[k]).ok /\ SplitEquals(parts[k]).key = key}
    IN  IF hits = {} THEN <<>>
        ELSE SplitEquals(parts[CHOOSE k \in hits : \A l \in hits : l <= k]).value

\* the item a scan names, 0 when the lookup raises (no such row, several
\* rows, or a number that int() rejects)
ScanLookup(db, barcode_data, item_id) ==
    IF item_id # <<>>
    THEN LET id == ParseInt(item_id)
         IN  IF id.ok /\ id.val \in DOMAIN db.items THEN id.val ELSE 0
    ELSE LET parts == SplitBar(Unquote(barcode_data))
             manufacturer == DataDictGet(parts, <<"M", "F", "R">>)
             pallet_id == DataDictGet(parts, <<"P", "A", "L", "L", "E", "T">>)
             box_id == ParseInt(DataDictGet(parts, <<"B", "O", "X">>))
             hits == {j \in DOMAIN db.items :
                         /\ db.items[j].manufacturer = manufacturer
                         /\ db.items[j].pallet_id = pallet_id
                         /\ box_id.ok /\ db.items[j].box_id = box_id.val}
         IN  IF Cardinality(hits) = 1 THEN CHOOSE j \in hits : TRUE ELSE 0

\* the rows of one item in a table, each as its kind, primary key and
\* timestamp; a primary key is the row's place in the table
EntriesOf(rows, item, entry_type) ==
    LET own == SelectSeq([k \in DOMAIN rows |->
                             [entry_type |-> entry_type, pk |-> k,
                              item |-> rows[k].item,
                              changed_at |-> rows[k].changed_at]],
                         LAMBDA e : e.item = item)
    IN  [k \in DOMAIN own |-> [entry_type |-> own[k].entry_type,
                               pk |-> own[k].pk,
                               changed_at |-> own[k].changed_at]]

\* a sort by changed_at, newest first; of the rows with one timestamp the
\* earlier one in s comes first when stable, the later one otherwise
RECURSIVE NewestFirst(_, _)
NewestFirst(s, stable) ==
    IF s = <<>> THEN <<>>
    ELSE LET top == {k \in DOMAIN s :
                        \A l \in DOMAIN s : s[l].changed_at <= s[k].changed_at}
             pick == IF stable THEN CHOOSE k \in top : \A l \in top : k <= l
                     ELSE CHOOSE k \in top : \A l \in top : l <= k
         IN  <<s[pick]>> \o
             NewestFirst(SubSeq(s, 1, pick - 1) \o SubSeq(s, pick + 1, Len(s)),
                         stable)

\* faulty variant: reverse=True is left out of sorted()
AuditTrail_OldestFirst(db, item, ties) ==
    LET status_entries ==
            NewestFirst(EntriesOf(db.status_history, item, "status"), ties)
        change_entries ==
            NewestFirst(EntriesOf(db.change_log, item, "change"), ties)
        sorted == NewestFirst(status_entries \o change_entries, FALSE)
    IN  [k \in DOMAIN sorted |-> sorted[Len(sorted) + 1 - k]]

\* audit_trail: the StatusHistory and the ChangeLog rows of the item, each
\* query ordered by -changed_at (the database orders equal timestamps either
\* way: ties), chained and sorted by changed_at in reverse with Python's
\* stable sort
AuditTrail(db, item, ties) ==
    LET status_entries ==
            NewestFirst(EntriesOf(db.status_history, item, "status"), ties)
        change_entries ==
            NewestFirst(EntriesOf(db.change_log, item, "change"), ties)
    IN  NewestFirst(status_entries \o change_entries, TRUE)

\* GET scanner_landing with ?data= or ?id=
ScannerLanding(barcode_data, item_id) ==
    /\ now < MaxTime
    /\ \E ties \in BOOLEAN :
       LET item == IF barcode_data = <<>> /\ item_id = <<>> THEN 0
                   ELSE ScanLookup(DB, barcode_data, item_id)
       IN  /\ now' = now + 1
           /\ UNCHANGED reqs
           /\ response' = [op |-> "scanner_landing", code |-> 200,
                           data |-> barcode_data, id |-> item_id,
                           item |-> item, error |-> (item = 0),
                           audit_trail |-> IF item = 0 THEN <<>>
                                           ELSE AuditTrail(DB, item, ties)]
           /\ IF item = 0 THEN UNCHANGED store
              ELSE Commit([DB EXCEPT !.scan_log =
                               Append(@, [item |-> item, scanned_at |-> now])])

-----------------------------------------------------------------------------
(* Requests the environment may send *)

Manufacturers == {<<"A">>, <<"B">>}
Actors == {"ann"}
ItemIds == 1..MaxItems

\* the sets {}, {1}, {1, 2}, ... of primary keys a bulk request may list
IdLists == {1..k : k \in 0..MaxItems}

DefaultForm ==
    [manufacturer |-> <<"A">>, project_number |-> "PRJ-1",
     num_boxes |-> <<"2">>, items_per_box |-> <<"5">>,
     location |-> "York, PA", location_custom |-> "", damaged |-> "no",
     description |-> "widgets", damaged_boxes |-> <<>>, tags |-> "",
     count_exceptions |-> <<>>]

FormFields == DOMAIN DefaultForm

\* the values each form field takes in the model; the opaque strings have
\* no blanks around them, so that strip() leaves them as they are
FieldValues ==
    [manufacturer |-> {<<"A">>, <<"B", " ">>, <<" ">>},
     project_number |-> {"PRJ-1"},
     num_boxes |-> {<<"2">>, <<"1">>, <<"a">>, <<"0">>, <<"1", ".", "5">>},
     items_per_box |-> {<<"5">>, <<"-", "1">>, <<"x">>},
     location |-> {"York, PA", "", "other"},
     location_custom |-> {""},
     damaged |-> {"no", "yes"},
     description |-> {"widgets"},
     damaged_boxes |-> {<<>>, <<"1">>, <<"3">>, <<"1", ",", "x">>},
     tags |-> {""},
     count_exceptions |-> {<<>>}]

\* the forms that differ from form in at most one field
Vary(form) ==
    UNION {{[form EXCEPT ![f] = v] : v \in FieldValues[f]} : f \in FormFields}

\* the form of test_multiple_errors_at_once
AllBadForm ==
    [DefaultForm EXCEPT !.manufacturer = <<" ">>, !.num_boxes = <<"a">>,
                        !.items_per_box = <<"-", "1">>, !.location = ""]

\* forms that differ from the default form in at most two fields, and the
\* form with several fields wrong
IntakeForms == UNION {Vary(form) : form \in Vary(DefaultForm)} \cup {AllBadForm}

\* a few forms: two valid ones, one with a damaged-box list, two invalid
FewForms ==
    {DefaultForm,
     [DefaultForm EXCEPT !.manufacturer = <<"B", " ">>, !.num_boxes = <<"1">>],
     [DefaultForm EXCEPT !.damaged_boxes = <<"3">>],
     AllBadForm}

ApiData ==
    [manufacturer : Manufacturers \cup {<<>>}, pallet_id : {<<"1">>},
     box_id : {1}, content : {5, 9}, damaged : {FALSE},
     location : {"Warehouse A"}, description : {"components"}]

\* item-API requests with pallet ids that are not plain positive numbers
OddPalletData ==
    {[d EXCEPT !.pallet_id = p] :
        d \in {x \in ApiData : x.manufacturer = <<"A">> /\ x.content = 5},
        p \in {<<"0">>, <<"1", "a">>}}

ApiLists ==
    {<<d1, d2>> : d1 \in {d \in ApiData : d.content = 5 /\ d.manufacturer = <<"A">>},
                  d2 \in {d \in ApiData : d.content = 9}}

StatusPatches == {("status" :> s) : s \in STATUS_CHOICES \cup {"bogus"}}

FieldPatches ==
    {("content" :> <<"int", 9>>), ("content" :> <<"str", <<"x">>>>),
     ("damaged" :> TRUE), ("location" :> "Cambridge, MD"),
     ("description" :> "edited"), ("project_number" :> "PRJ-2"),
     ("manufacturer" :> <<"B">>), ("manufacturer" :> <<" ">>),
     ("tags" :> "RP12")}

\* every patch that names at most two fields
EditPatches ==
    {<<>>} \cup FieldPatches \cup StatusPatches
        \cup {p @@ q : p \in FieldPatches \cup StatusPatches, q \in FieldPatches}

FewPatches ==
    {("manufacturer" :> <<"B">>), ("status" :> "checked_out"),
     ("status" :> "tested"), ("content" :> <<"int", 9>>)}

BulkFields == {("location" :> "Rockville, MD"), ("damaged" :> TRUE)}

Init ==
    /\ items = <<>>
    /\ status_history = <<>>
    /\ change_log = <<>>
    /\ notification_log = <<>>
    /\ next_id = 1
    /\ scan_log = <<>>
    /\ print_jobs = <<>>
    /\ next_job = 1
    /\ deletion_log = <<>>
    /\ webhook = "unset"
    /\ fault = NoFault
    /\ worker = [pc |-> "sleep", jobs |-> <<>>]
    /\ printer = <<>>
    /\ now = 0
    /\ response = [op |-> "none", code |-> 0]
    /\ reqs = <<>>

-----------------------------------------------------------------------------
(* Spec: the handlers of intake, status and edits, one request at a time,
   each handled whole *)

Next ==
    \/ \E form \in FewForms : AddShipment(form)
    \/ \E data \in ApiData \cup OddPalletData : CreateItemFromExcel(data)
    \/ \E list \in ApiLists : BulkCreateItems(list)
    \/ \E i \in ItemIds, l \in {"Checked Out", "Tested", "checked_in"},
          a \in Actors : UpdateStatus(i, l, "note", a)
    \/ \E ids \in IdLists, s \in {"checked_out", "recycling", "Tested"},
          a \in Actors : BulkUpdateStatus(ids, s, "", a)
    \/ \E i \in ItemIds, data \in FewPatches, a \in Actors :
           EditItem(i, data, a, "")
    \/ \E i \in ItemIds : ArchiveItem(i, TRUE)
    \/ \E ids \in IdLists, b \in BOOLEAN : BulkArchive(ids, b)
    \/ \E ids \in IdLists, fields \in BulkFields, a \in Actors :
           BulkEdit(ids, fields, a)

Spec == Init /\ [][Next]_vars

-----------------------------------------------------------------------------
(* SpecAudit: every handler that writes, with edits of history notes *)

NextAudit ==
    \/ Next
    \/ \E h \in 1..MaxItems, n \in {"", "amended"} : UpdateHistoryNotes(h, n)

SpecAudit == Init /\ [][NextAudit]_vars

-----------------------------------------------------------------------------
(* SpecIntake: shipment forms in breadth, over stores the item API filled *)

NextIntake ==
    \/ \E form \in IntakeForms : AddShipment(form)
    \/ \E data \in ApiData : CreateItemFromExcel(data)
    \/ \E i \in ItemIds, a \in Actors : UpdateStatus(i, "Checked Out", "note", a)

SpecIntake == Init /\ [][NextIntake]_vars

-----------------------------------------------------------------------------
(* SpecBoxes: shipments of up to three boxes with per-box damage lists and
   count exceptions *)

\* the form of test_valid_count_exception: three boxes of ten
ThreeBoxForm ==
    [DefaultForm EXCEPT !.num_boxes = <<"3">>, !.items_per_box = <<"1", "0">>]

\* damaged-box lists: none, one box, a box listed twice, two boxes with a
\* blank, a list with no entry
DamageLists ==
    {<<>>, <<"2">>, <<"2", ",", "2">>, <<"1", ",", " ", "3">>, <<",">>}

\* count-exception lists of the tests: "2:25", "1:5;2:10", "3-20", "2:-5",
\* "2:abc", "10:50"
ExceptionLists ==
    {<<"2", ":", "2", "5">>,
     <<"1", ":", "5", ";", "2", ":", "1", "0">>,
     <<"3", "-", "2", "0">>,
     <<"2", ":", "-", "5">>,
     <<"2", ":", "a", "b", "c">>,
     <<"1", "0", ":", "5", "0">>}

BoxForms ==
    {[ThreeBoxForm EXCEPT !.num_boxes = n, !.damaged = d, !.damaged_boxes = l] :
        n \in {<<"1">>, <<"3">>}, d \in {"no", "yes"}, l \in DamageLists}
    \cup {[ThreeBoxForm EXCEPT !.count_exceptions = x] : x \in ExceptionLists}

NextBoxes ==
    \/ \E form \in BoxForms : AddShipment(form)
    \/ \E data \in {d \in ApiData : d.manufacturer = <<"A">> /\ d.content = 5} :
           CreateItemFromExcel(data)

SpecBoxes == Init /\ [][NextBoxes]_vars

-----------------------------------------------------------------------------
(* SpecStatus: every status transition, by every entry point *)

NextStatus ==
    \/ AddShipment(DefaultForm)
    \/ \E i \in ItemIds, l \in StatusLabels \cup {"checked_in"}, a \in Actors,
          n \in {"", "note"} : UpdateStatus(i, l, n, a)
    \/ \E ids \in IdLists, s \in STATUS_CHOICES \cup {"Tested"}, a \in Actors :
           BulkUpdateStatus(ids, s, "", a)
    \/ \E i \in ItemIds, data \in StatusPatches, a \in Actors :
           EditItem(i, data, a, "note")

SpecStatus == Init /\ [][NextStatus]_vars

-----------------------------------------------------------------------------
(* SpecEdit: field patches in breadth *)

NextEdit ==
    \/ AddShipment(DefaultForm)
    \/ \E data \in {d \in ApiData : d.content = 5} : CreateItemFromExcel(data)
    \/ \E i \in ItemIds, a \in Actors : UpdateStatus(i, "Checked Out", "note", a)
    \/ \E i \in ItemIds : ArchiveItem(i, TRUE)
    \/ \E i \in ItemIds, data \in EditPatches, a \in Actors :
           EditItem(i, data, a, "")

SpecEdit == Init /\ [][NextEdit]_vars

-----------------------------------------------------------------------------
(* SpecLog: edits that name fields with new and with current values *)

LogPatches ==
    {("location" :> "Cambridge, MD"), ("location" :> "York, PA"),
     ("manufacturer" :> <<"B">>), ("content" :> <<"int", 9>>),
     ("content" :> <<"str", <<"5">>>>), ("damaged" :> TRUE), ("tags" :> ""),
     ("location" :> "Cambridge, MD") @@ ("manufacturer" :> <<"B">>),
     ("status" :> "tested") @@ ("description" :> "edited"),
     ("content" :> <<"str", <<"x">>>>),
     ("content" :> <<"str", <<"x">>>>) @@ ("location" :> "Cambridge, MD"),
     ("content" :> <<"str", <<"x">>>>) @@ ("status" :> "tested")}

LogBulkFields ==
    BulkFields \cup
        {("location" :> "York, PA"), ("tags" :> ""), ("tags" :> "RP12"),
         ("location" :> "Rockville, MD") @@ ("damaged" :> TRUE)}

NextLog ==
    \/ AddShipment(DefaultForm)
    \/ \E i \in ItemIds, data \in LogPatches, a \in Actors :
           EditItem(i, data, a, "")
    \/ \E ids \in IdLists, fields \in LogBulkFields, a \in Actors :
           BulkEdit(ids, fields, a)

SpecLog == Init /\ [][NextLog]_vars

-----------------------------------------------------------------------------
(* SpecOverdue: checkouts, archiving and the overdue report, days apart *)

NextOverdue ==
    \/ AddShipment(DefaultForm)
    \/ \E i \in ItemIds, l \in {"Checked Out", "Tested"}, a \in Actors :
           UpdateStatus(i, l, "", a)
    \/ \E i \in ItemIds, archive \in BOOLEAN : ArchiveItem(i, archive)
    \/ \E days \in {6, 7, 8} : Wait(days)
    \/ OverdueItemsApi

SpecOverdue == Init /\ [][NextOverdue]_vars

-----------------------------------------------------------------------------
(* SpecNotify: status transitions of damaged and undamaged items while the
   webhook is unset, answering or failing *)

NotifyForm == [DefaultForm EXCEPT !.damaged_boxes = <<"1">>]

NextNotify ==
    \/ AddShipment(NotifyForm)
    \/ \E i \in ItemIds, l \in StatusLabels, a \in Actors :
           UpdateStatus(i, l, "", a)
    \/ \E ids \in IdLists, s \in {"checked_out", "tested"}, a \in Actors :
           BulkUpdateStatus(ids, s, "", a)
    \/ \E i \in ItemIds, s \in {"checked_in", "checked_out", "tested"},
          a \in Actors : EditItem(i, ("status" :> s), a, "")
    \/ \E w \in {"unset", "up", "down"} : SetWebhook(w)

SpecNotify == Init /\ [][NextNotify]_vars

-----------------------------------------------------------------------------
(* SpecBulk: bulk requests while the database fails one statement *)

NextBulk ==
    \/ AddShipment(DefaultForm)
    \/ \E pk \in 1..2, stmt \in {"save", "history", "log"} :
           InjectFault(<<pk, stmt>>)
    \/ \E ids \in IdLists, a \in Actors :
           BulkUpdateStatus(ids, "tested", "", a)
    \/ \E ids \in IdLists, fields \in BulkFields, a \in Actors :
           BulkEdit(ids, fields, a)
    \/ \E ids \in IdLists : BulkArchive(ids, TRUE)

SpecBulk == Init /\ [][NextBulk]_vars

-----------------------------------------------------------------------------
(* SpecPrint: print jobs and the reports of the print worker *)

NextPrint ==
    \/ AddShipment(DefaultForm)
    \/ \E ids \in IdLists : CreatePrintJobs(ids)
    \/ \E j \in 1..2, s \in {"printed", "failed", "pending"},
          error \in {"", "paper jam"}, authorized \in BOOLEAN :
           UpdatePrintJobStatus(j, s, error, authorized)

SpecPrint == Init /\ [][NextPrint]_vars

-----------------------------------------------------------------------------
(* SpecWorker: print jobs and the print worker, whose calls of the API and
   of the printer succeed or fail *)

NextWorker ==
    \/ AddShipment(DefaultForm)
    \/ \E ids \in IdLists : CreatePrintJobs(ids)
    \/ \E fetch_ok \in BOOLEAN : Worker_Poll(fetch_ok)
    \/ \E download_ok, print_ok, report_ok \in BOOLEAN :
           Worker_ProcessJob(download_ok, print_ok, report_ok)

SpecWorker == Init /\ [][NextWorker]_vars

-----------------------------------------------------------------------------
(* SpecDelete: pallets with audit rows and print jobs, deleted *)

NextDelete ==
    \/ AddShipment(DefaultForm)
    \/ \E data \in {d \in ApiData : d.manufacturer = <<"B">> /\ d.content = 5},
          p \in {<<"1">>, <<"3">>} :
           CreateItemFromExcel([data EXCEPT !.pallet_id = p])
    \/ \E ids \in IdLists : CreatePrintJobs(ids)
    \/ \E f \in {NoFault, <<0, "snapshot">>} : InjectFault(f)
    \/ \E m \in Manufacturers, p \in {<<"1">>, <<"2">>, <<"3">>} :
           DeletePallet(m, p, "ann", "cleanup")

SpecDelete == Init /\ [][NextDelete]_vars

-----------------------------------------------------------------------------
(* SpecScan: items of the shipment form and of the item API, some with
   blanks around the manufacturer, moved and edited, scanned by payload and
   by id *)

ScanData ==
    [manufacturer : {<<"A">>, <<"A", " ">>, <<" ", "B">>},
     pallet_id : {<<"1">>, <<"2">>}, box_id : {1}, content : {5},
     damaged : {FALSE}, location : {"Warehouse A"},
     description : {"components"}]

NextScan ==
    \/ AddShipment(DefaultForm)
    \/ \E data \in ScanData : CreateItemFromExcel(data)
    \/ \E j \in DOMAIN items : ScannerLanding(items[j].barcode_payload, <<>>)
    \/ \E data \in {<<>>, <<"M", "F", "R", "=", "A">>,
                    BarcodePayload(<<"A">>, <<"9">>, 1)} :
           ScannerLanding(data, <<>>)
    \/ \E id \in {<<"1">>, <<"2">>, <<"x">>, <<"9">>} : ScannerLanding(<<>>, id)
    \/ \E i \in ItemIds, l \in {"Checked Out", "Tested"}, a \in Actors :
           UpdateStatus(i, l, "note", a)
    \/ \E i \in ItemIds, a \in Actors :
           EditItem(i, ("location" :> "Cambridge, MD"), a, "")

SpecScan == Init /\ [][NextScan]_vars

-----------------------------------------------------------------------------
(* SpecConc: requests served by concurrent workers. The database runs in
   autocommit mode and no handler opens a transaction, so every ORM call is
   a statement of its own, and the statements of requests in flight
   interleave. reqs holds the requests in flight, each with its position
   and its local variables; the model objects a handler holds are copies of
   the row as it was read. *)

\* reqs without its k-th request
Drop(k) ==
    [j \in 1..(Len(reqs) - 1) |-> IF j < k THEN reqs[j] ELSE reqs[j + 1]]

\* the handler of request k returns
Respond(k, resp) ==
    /\ response' = resp
    /\ reqs' = Drop(k)

\* the handler of request k moves on, its locals now r
Goto(k, r) ==
    /\ reqs' = [reqs EXCEPT ![k] = r]
    /\ UNCHANGED response

\* a worker is free to take a request
Accept ==
    /\ now < MaxTime
    /\ Len(reqs) < MaxReqs
    /\ now' = now + 1

\* update_status up to get_object_or_404: the row is read, status and
\* attribution are set on the copy
UpdateStatus_Get(item_id, new_status, notes, changed_by) ==
    LET resp == [op |-> "update_status", code |-> 200, item_id |-> item_id,
                 status |-> new_status, notes |-> notes,
                 changed_by |-> changed_by]
    IN  /\ Accept
        /\ UNCHANGED store
        /\ IF new_status \notin StatusLabels
           THEN /\ response' = [resp EXCEPT !.code = 400]
                /\ UNCHANGED reqs
           ELSE IF item_id \notin DOMAIN items
           THEN /\ response' = [resp EXCEPT !.code = 500]
                /\ UNCHANGED reqs
           ELSE /\ reqs' = Append(reqs,
                       [op |-> "update_status", pc |-> "save", resp |-> resp,
                        old_status |-> items[item_id].status,
                        item |-> TransitionRow(items[item_id],
                                               status_mapping[new_status],
                                               changed_by, now + 1)])
                /\ UNCHANGED response

\* item.save() of update_status; an IntegrityError is caught and answered
\* with 500
UpdateStatus_Save(k) ==
    LET r == reqs[k]
        sav == SaveItem(DB, r.resp.item_id, r.item)
    IN  /\ r.op = "update_status" /\ r.pc = "save"
        /\ UNCHANGED now
        /\ IF sav.ok
           THEN Commit(sav.db) /\ Goto(k, [r EXCEPT !.pc = "history"])
           ELSE UNCHANGED store /\ Respond(k, [r.resp EXCEPT !.code = 500])

\* StatusHistory.objects.create and _send_notification of update_status,
\* then the response
UpdateStatus_History(k) ==
    LET r == reqs[k]
        h == InsertHistory(DB, r.resp.item_id, r.old_status, r.item.status,
                           r.resp.notes, r.resp.changed_by, now)
    IN  /\ r.op = "update_status" /\ r.pc = "history"
        /\ UNCHANGED now
        /\ Commit(SendNotification(h, r.resp.item_id, r.item, r.old_status,
                                   r.item.status, r.resp.changed_by, now))
        /\ Respond(k, r.resp)

\* add_shipment up to the validation: the pallet id is read, the form is
\* validated; items are the rows written so far (created_items), created
\* those of them that went through the create branch
AddShipment_Begin(form) ==
    LET pallet_id == NextPalletId(DB)
        plan == ValidateShipment(form)
        resp == [op |-> "add_shipment", code |-> 200, form |-> form,
                 errors |-> plan.errors,
                 form_data |-> FormData(form, pallet_id),
                 pallet_id |-> pallet_id, items |-> <<>>, created |-> <<>>]
    IN  /\ Accept
        /\ UNCHANGED store
        /\ IF plan.errors # <<>>
           THEN response' = resp /\ UNCHANGED reqs
           ELSE /\ reqs' = Append(reqs,
                       [op |-> "add_shipment", pc |-> "lookup", resp |-> resp,
                        plan |-> plan, box_num |-> 1, pk |-> 0,
                        item |-> <<>>])
                /\ UNCHANGED response

\* the lookup of the box loop: filter(...).first(); past the last box the
\* result page is returned
AddShipment_Lookup(k) ==
    LET r == reqs[k]
        pk == FindItem(DB, r.plan.manufacturer, r.resp.pallet_id, r.box_num)
    IN  /\ r.op = "add_shipment" /\ r.pc = "lookup"
        /\ UNCHANGED <<now, store>>
        /\ IF r.box_num > r.plan.num_boxes_int
           THEN Respond(k, r.resp)
           ELSE Goto(k, [r EXCEPT !.pc = "write", !.pk = pk,
                                  !.item = IF pk # 0 THEN items[pk] ELSE <<>>])

\* existing.save() or InventoryItem.objects.create(...) of the box loop; an
\* IntegrityError is not caught and ends the request with 500
AddShipment_Write(k) ==
    LET r == reqs[k]
        w == IF r.pk # 0
             THEN SaveItem(DB, r.pk,
                           ShipmentUpdateRow(r.item, r.pk, r.plan,
                                             r.resp.pallet_id, r.box_num))
             ELSE InsertItem(DB, ShipmentCreateRow(r.plan, r.resp.pallet_id,
                                                   r.box_num))
        listed == [r EXCEPT !.resp.items = Append(@, w.id),
                            !.resp.created = IF r.pk # 0 THEN @
                                             ELSE Append(@, w.id)]
    IN  /\ r.op = "add_shipment" /\ r.pc = "write"
        /\ UNCHANGED now
        /\ r.pk = 0 => next_id <= MaxItems
        /\ IF ~w.ok
           THEN UNCHANGED store /\ Respond(k, [r.resp EXCEPT !.code = 500])
           ELSE /\ Commit(w.db)
                /\ IF r.pk # 0
                   THEN Goto(k, [listed EXCEPT !.pc = "lookup",
                                               !.box_num = @ + 1])
                   ELSE Goto(k, [listed EXCEPT !.pc = "qr_url", !.pk = w.id,
                                               !.item = w.db.items[w.id]])

\* item.save() with the short QR link, on the copy create() returned
AddShipment_QrUrl(k) ==
    LET r == reqs[k]
        sav == SaveItem(DB, r.pk, [r.item EXCEPT !.qr_url = ShortQrUrl(r.pk)])
    IN  /\ r.op = "add_shipment" /\ r.pc = "qr_url"
        /\ UNCHANGED now
        /\ IF sav.ok
           THEN Commit(sav.db) /\ Goto(k, [r EXCEPT !.pc = "audit"])
           ELSE UNCHANGED store /\ Respond(k, [r.resp EXCEPT !.code = 500])

\* the StatusHistory and ChangeLog rows of a created box, then the next box
AddShipment_Audit(k) ==
    LET r == reqs[k]
        h == InsertHistory(DB, r.pk, "", "checked_in",
                           <<"Item created via shipment (Pallet",
                             r.resp.pallet_id>>, "", now)
    IN  /\ r.op = "add_shipment" /\ r.pc = "audit"
        /\ UNCHANGED now
        /\ Commit(InsertChange(h, r.pk, "created", "status", "", "Checked In",
                               "", now))
        /\ Goto(k, [r EXCEPT !.pc = "lookup", !.box_num = @ + 1])

\* create_item_from_excel up to the lookup: 400 when a key field is
\* missing, else filter(...).first()
CreateItem_Lookup(data) ==
    LET pk == FindItem(DB, data.manufacturer, data.pallet_id, data.box_id)
        resp == [op |-> "create_item_from_excel", code |-> 200,
                 item_id |-> pk, data |-> data, existed |-> pk # 0]
    IN  /\ Accept
        /\ UNCHANGED store
        /\ IF data.manufacturer = <<>> \/ data.pallet_id = <<>> \/ data.box_id = 0
           THEN response' = [resp EXCEPT !.code = 400] /\ UNCHANGED reqs
           ELSE /\ reqs' = Append(reqs,
                       [op |-> "create_item_from_excel", pc |-> "write",
                        resp |-> resp,
                        item |-> IF pk # 0 THEN items[pk] ELSE <<>>])
                /\ UNCHANGED response

\* existing_item.save() or InventoryItem.objects.create(...) of the item
\* API; an IntegrityError is caught and answered with 500
CreateItem_Write(k) ==
    LET r == reqs[k]
        w == IF r.resp.existed
             THEN SaveItem(DB, r.resp.item_id, ApiUpdateRow(r.item, r.resp.data))
             ELSE InsertItem(DB, ApiCreateRow(r.resp.data))
    IN  /\ r.op = "create_item_from_excel" /\ r.pc = "write"
        /\ UNCHANGED now
        /\ ~r.resp.existed => next_id <= MaxItems
        /\ IF w.ok
           THEN Commit(w.db) /\ Respond(k, [r.resp EXCEPT !.item_id = w.id])
           ELSE UNCHANGED store
                /\ Respond(k, [r.resp EXCEPT !.code = 500, !.item_id = 0])

\* edit_item up to get_object_or_404: the row is read
EditItem_Get(item_id, data, changed_by, notes) ==
    LET resp == [op |-> "edit_item", code |-> 200, item_id |-> item_id,
                 data |-> data, changed_by |-> changed_by, notes |-> notes,
                 status_changed |-> FALSE]
    IN  /\ Accept
        /\ UNCHANGED store
        /\ IF item_id \notin DOMAIN items
           THEN response' = [resp EXCEPT !.code = 500] /\ UNCHANGED reqs
           ELSE /\ reqs' = Append(reqs,
                       [op |-> "edit_item", pc |-> "save", resp |-> resp,
                        old_item |-> items[item_id],
                        item |-> items[item_id]])
                /\ UNCHANGED response

\* the assignments of edit_item on the copy, then item.save(): 400 before
\* anything is written when the content does not parse, 500 on an
\* IntegrityError
EditItem_Save(k) ==
    LET r == reqs[k]
        data == r.resp.data
        edited == EditFieldsRow(r.item, r.resp.item_id, data)
        status_changed == EditStatusChanged(r.item, data)
        row == IF status_changed
               THEN TransitionRow(edited, data["status"], r.resp.changed_by, now)
               ELSE edited
        sav == SaveItem(DB, r.resp.item_id, row)
    IN  /\ r.op = "edit_item" /\ r.pc = "save"
        /\ UNCHANGED now
        /\ IF Has(data, "content") /\ ~ContentValue(data["content"]).ok
           THEN UNCHANGED store /\ Respond(k, [r.resp EXCEPT !.code = 400])
           ELSE IF ~sav.ok
           THEN UNCHANGED store /\ Respond(k, [r.resp EXCEPT !.code = 500])
           ELSE /\ Commit(sav.db)
                /\ Goto(k, [r EXCEPT !.pc = "log",
                                     !.resp.status_changed = status_changed,
                                     !.old_item = r.item, !.item = row])

\* the StatusHistory row, the notification and the ChangeLog rows of
\* edit_item, then the response
EditItem_Log(k) ==
    LET r == reqs[k]
        pk == r.resp.item_id
        h == IF r.resp.status_changed
             THEN SendNotification(
                      InsertHistory(DB, pk, r.old_item.status, r.item.status,
                                    r.resp.notes, r.resp.changed_by, now),
                      pk, r.item, r.old_item.status, r.item.status,
                      r.resp.changed_by, now)
             ELSE DB
    IN  /\ r.op = "edit_item" /\ r.pc = "log"
        /\ UNCHANGED now
        /\ Commit(LogFieldChanges(h, pk, r.old_item, r.item, 1,
                                  r.resp.changed_by, now))
        /\ Respond(k, r.resp)

\* the requests sent while workers run side by side
ConcForms ==
    {[DefaultForm EXCEPT !.num_boxes = <<"1">>],
     [DefaultForm EXCEPT !.manufacturer = <<"B">>, !.num_boxes = <<"1">>]}

ConcData == {d \in ApiData : d.manufacturer = <<"A">> /\ d.content = 5}

ConcPatches == {("manufacturer" :> <<"A">>), ("manufacturer" :> <<"B">>)}

NextConc ==
    \/ \E i \in 1..2, l \in {"Tested", "Checked Out"}, a \in Actors :
           UpdateStatus_Get(i, l, "", a)
    \/ \E k \in DOMAIN reqs : UpdateStatus_Save(k)
    \/ \E k \in DOMAIN reqs : UpdateStatus_History(k)
    \/ \E form \in ConcForms : AddShipment_Begin(form)
    \/ \E k \in DOMAIN reqs : AddShipment_Lookup(k)
    \/ \E k \in DOMAIN reqs : AddShipment_Write(k)
    \/ \E k \in DOMAIN reqs : AddShipment_QrUrl(k)
    \/ \E k \in DOMAIN reqs : AddShipment_Audit(k)
    \/ \E data \in ConcData : CreateItem_Lookup(data)
    \/ \E k \in DOMAIN reqs : CreateItem_Write(k)
    \/ \E i \in 1..2, data \in ConcPatches, a \in Actors :
           EditItem_Get(i, data, a, "")
    \/ \E k \in DOMAIN reqs : EditItem_Save(k)
    \/ \E k \in DOMAIN reqs : EditItem_Log(k)

SpecConc == Init /\ [][NextConc]_vars

-----------------------------------------------------------------------------
(* SpecShip: submissions of one two-box shipment form, served by concurrent
   workers *)

NextShip ==
    \/ AddShipment_Begin(DefaultForm)
    \/ \E k \in DOMAIN reqs : AddShipment_Lookup(k)
    \/ \E k \in DOMAIN reqs : AddShipment_Write(k)
    \/ \E k \in DOMAIN reqs : AddShipment_QrUrl(k)
    \/ \E k \in DOMAIN reqs : AddShipment_Audit(k)

SpecShip == Init /\ [][NextShip]_vars

-----------------------------------------------------------------------------
(* SpecRace: a status change and a field edit of one item, served by
   concurrent workers, after a shipment. At most one request of a kind is in
   flight, so the statements that interleave are those of a status change
   with those of an edit. *)

NextRace ==
    \/ AddShipment([DefaultForm EXCEPT !.num_boxes = <<"1">>])
    \/ \E l \in {"Tested", "Checked Out"}, a \in Actors :
           /\ \A k \in DOMAIN reqs : reqs[k].op # "update_status"
           /\ UpdateStatus_Get(1, l, "", a)
    \/ \E k \in DOMAIN reqs : UpdateStatus_Save(k)
    \/ \E k \in DOMAIN reqs : UpdateStatus_History(k)
    \/ \E data \in {("manufacturer" :> <<"B">>),
                    ("location" :> "Cambridge, MD"),
                    ("status" :> "recycling")}, a \in Actors :
           /\ \A k \in DOMAIN reqs : reqs[k].op # "edit_item"
           /\ EditItem_Get(1, data, a, "")
    \/ \E k \in DOMAIN reqs : EditItem_Save(k)
    \/ \E k \in DOMAIN reqs : EditItem_Log(k)

SpecRace == Init /\ [][NextRace]_vars

-----------------------------------------------------------------------------
(* Properties *)

LifecycleFields ==
    {"status", "checked_out_by", "checked_out_at", "archived", "archived_at"}

UpsertOps == {"add_shipment", "create_item_from_excel", "bulk_create_items"}

\* C1: a shipment or item-API upsert leaves the status, the checkout actor,
\* the checkout timestamp, the archived flag and the archived timestamp of
\* every item that existed before the call exactly as they were, the item it
\* overwrites included.
C1_UpsertKeepsLifecycle ==
    [][response'.op \in UpsertOps =>
          \A j \in DOMAIN items :
              /\ j \in DOMAIN items'
              /\ \A f \in LifecycleFields : items'[j][f] = items[j][f]]_vars

\* an item-API upsert has overwritten the content of an existing item that
\* is checked out
C1_Witness ==
    /\ response.op = "create_item_from_excel"
    /\ response.code = 200
    /\ response.existed
    /\ items[response.item_id].status = "checked_out"
    /\ items[response.item_id].checked_out_by = "ann"
    /\ items[response.item_id].content = 9

\* the forms that pass validation, among those one field away from the
\* default form
ValidForms ==
    {form \in Vary(DefaultForm) : ValidateShipment(form).errors = <<>>}

\* the pallet ids a plan may be applied to: the next one and those in use
PalletIdsInUse == {items[j].pallet_id : j \in DOMAIN items}

\* C2: applying a shipment plan a second time to the same pallet id creates
\* no item and leaves every item as the first application left it.
C2_ApplyTwiceIsApplyOnce ==
    \A form \in ValidForms, pallet_id \in PalletIdsInUse \cup {NextPalletId(DB)} :
        LET plan == ValidateShipment(form)
            once == ApplyShipment(DB, plan, pallet_id, 1, <<>>, now + 1)
            twice == ApplyShipment(once.db, plan, pallet_id, 1, <<>>, now + 2)
        IN  /\ DOMAIN twice.db.items = DOMAIN once.db.items
            /\ twice.db.next_id = once.db.next_id
            /\ twice.db.items = once.db.items
            /\ twice.ok = once.ok

\* a shipment of two boxes has just been applied, and applying its plan to
\* the same pallet id again finds both boxes
C2_Witness ==
    /\ response.op = "add_shipment"
    /\ response.code = 200
    /\ Len(response.items) = 2
    /\ LET plan == ValidateShipment(response.form)
       IN  /\ plan.errors = <<>>
           /\ \A b \in 1..2 :
                  FindItem(DB, plan.manufacturer, response.pallet_id, b)
                      = response.items[b]
           /\ ApplyShipment(DB, plan, response.pallet_id, 1, <<>>, now + 1).created_items
                  = response.items

\* C4: in every reachable state the barcode payload of every item encodes
\* the item's current manufacturer, pallet id and box number.
C4_PayloadInSync ==
    \A j \in DOMAIN items :
        items[j].barcode_payload =
            BarcodePayload(items[j].manufacturer, items[j].pallet_id,
                           items[j].box_id)

\* edit_item has changed the manufacturer of an item from A to B
C4_Witness ==
    /\ response.op = "edit_item"
    /\ response.code = 200
    /\ "manufacturer" \in DOMAIN response.data
    /\ items[response.item_id].manufacturer = <<"B">>
    /\ \E k \in 1..Len(change_log) :
           /\ change_log[k].item = response.item_id
           /\ change_log[k].field_name = "manufacturer"
           /\ change_log[k].old_value = <<"A">>
           /\ change_log[k].changed_at = now

\* C5: update_status with a known status on an existing item, whatever the
\* item's status, answers 200, leaves the item in the new status and appends
\* exactly one StatusHistory row, carrying the status before the call, the
\* new status, the note and the actor.
C5_EveryTransitionRecorded ==
    [][(/\ response'.op = "update_status"
        /\ response'.item_id \in DOMAIN items
        /\ response'.status \in StatusLabels) =>
          LET pk == response'.item_id
              t == status_mapping[response'.status]
          IN  /\ response'.code = 200
              /\ items'[pk].status = t
              /\ status_history' = Append(status_history,
                     [item |-> pk, old_status |-> items[pk].status,
                      new_status |-> t, notes |-> response'.notes,
                      changed_by |-> response'.changed_by,
                      changed_at |-> now'])]_vars

\* update_status has taken an item from recycling to recycling: a row is
\* written although the status did not change
C5_Witness ==
    /\ response.op = "update_status"
    /\ response.code = 200
    /\ items[response.item_id].status = "recycling"
    /\ status_history # <<>>
    /\ LET last == status_history[Len(status_history)]
       IN  /\ last.item = response.item_id
           /\ last.old_status = "recycling"
           /\ last.new_status = "recycling"
           /\ last.changed_at = now

\* C6: in every reachable state an item has a checkout timestamp exactly
\* when its status is checked_out, and no checkout actor when it is not.
C6_AttributionIffCheckedOut ==
    \A j \in DOMAIN items :
        /\ (items[j].checked_out_at # None) <=> (items[j].status = "checked_out")
        /\ items[j].status # "checked_out" => items[j].checked_out_by = ""

\* an item that was checked out by ann has left checked_out again and its
\* attribution is cleared
C6_Witness ==
    \E j \in DOMAIN items :
        /\ items[j].status \notin {"checked_out", "checked_in"}
        /\ items[j].checked_out_at = None
        /\ items[j].checked_out_by = ""
        /\ \E k \in 1..Len(status_history) :
               /\ status_history[k].item = j
               /\ status_history[k].old_status = "checked_out"
               /\ status_history[k].changed_by = "ann"

\* the item fields a patch naming the fields F may change, as edit_item
\* assigns them: a manufacturer edit rewrites the barcode payload and the QR
\* link, a status edit rewrites the checkout actor and timestamp
PatchReach(F) ==
    F \cup (IF "manufacturer" \in F THEN {"barcode_payload", "qr_url"} ELSE {})
      \cup (IF "status" \in F THEN {"checked_out_by", "checked_out_at"} ELSE {})

\* C8: edit_item is a sparse patch: a call whose patch names the fields F
\* changes no field of the item outside F, except that a manufacturer edit
\* also regenerates the barcode payload and the QR link and a status edit
\* also sets or clears the checkout actor and timestamp; a patch that does
\* not name status leaves status, checkout actor, checkout timestamp and
\* archived flag as they were; no other item is changed, none is added or
\* removed.
C8_SparsePatch ==
    [][response'.op = "edit_item" =>
          /\ DOMAIN items' = DOMAIN items
          /\ \A j \in DOMAIN items :
                 IF j # response'.item_id THEN items'[j] = items[j]
                 ELSE \A f \in (DOMAIN items[j]) \ PatchReach(DOMAIN response'.data) :
                          items'[j][f] = items[j][f]]_vars

\* a patch that names only the manufacturer has been applied to a checked-out
\* item: the manufacturer changed, status and attribution stayed
C8_Witness ==
    /\ response.op = "edit_item"
    /\ response.code = 200
    /\ DOMAIN response.data = {"manufacturer"}
    /\ response.item_id \in DOMAIN items
    /\ items[response.item_id].manufacturer = <<"B">>
    /\ items[response.item_id].qr_url = ShortQrUrl(response.item_id)
    /\ items[response.item_id].status = "checked_out"
    /\ items[response.item_id].checked_out_by = "ann"
    /\ \E k \in DOMAIN change_log :
           /\ change_log[k].item = response.item_id
           /\ change_log[k].field_name = "manufacturer"
           /\ change_log[k].old_value = <<"A">>

\* C8 as first stated: outside F only the barcode payload may change, and
\* only on a manufacturer edit
C8_OnlyNamedFields ==
    [][response'.op = "edit_item" =>
          /\ DOMAIN items' = DOMAIN items
          /\ \A j \in DOMAIN items :
                 IF j # response'.item_id THEN items'[j] = items[j]
                 ELSE \A f \in (DOMAIN items[j]) \
                          (DOMAIN response'.data \cup
                              (IF "manufacturer" \in DOMAIN response'.data
                               THEN {"barcode_payload"} ELSE {})) :
                          items'[j][f] = items[j][f]]_vars

\* C9: a successful shipment of n boxes adds exactly n new items, all under
\* the pallet id of the response, which no item had before; no item is
\* removed and every field of every item that existed before is unchanged.
C9_ShipmentOnlyAdds ==
    [][(/\ response'.op = "add_shipment"
        /\ response'.code = 200
        /\ response'.errors = <<>>) =>
          LET n == ParseInt(response'.form.num_boxes).val
              added == (DOMAIN items') \ (DOMAIN items)
          IN  /\ Cardinality(added) = n
              /\ \A j \in added : items'[j].pallet_id = response'.pallet_id
              /\ \A j \in DOMAIN items :
                     /\ items[j].pallet_id # response'.pallet_id
                     /\ j \in DOMAIN items'
                     /\ items'[j] = items[j]]_vars

\* a shipment of two boxes has gone in next to an item that is checked out
C9_Witness ==
    /\ response.op = "add_shipment"
    /\ response.code = 200
    /\ response.errors = <<>>
    /\ Len(response.items) = 2
    /\ \E j \in DOMAIN items :
           /\ j \notin {response.items[k] : k \in DOMAIN response.items}
           /\ items[j].status = "checked_out"
           /\ items[j].pallet_id # response.pallet_id

\* the text of a form field as int() reads it, and whether it is an integer
\* of at least 1
IsCount(text) == ParseInt(text).ok /\ ParseInt(text).val >= 1

\* a form breaks one of the rules of the shipment form: manufacturer and
\* location are required, both counts are whole numbers of at least 1, every
\* damaged-box entry is a whole number, and within 1..num_boxes when the
\* number of boxes is a non-zero number
ViolatesRule(form) ==
    LET parts == SplitComma(Strip(form.damaged_boxes))
        entries == {Strip(parts[k]) : k \in DOMAIN parts} \ {<<>>}
        nb == ParseInt(form.num_boxes)
    IN  \/ Strip(form.manufacturer) = <<>>
        \/ FormLocation(form) = ""
        \/ ~IsCount(form.num_boxes)
        \/ ~IsCount(form.items_per_box)
        \/ \E part \in entries :
               \/ ~ParseInt(part).ok
               \/ /\ nb.ok /\ nb.val # 0
                  /\ ParseInt(part).val \notin 1..nb.val

Triple(item) == <<item.manufacturer, item.pallet_id, item.box_id>>

\* C3: whatever the interleaving of shipment submissions, item-API upserts,
\* manufacturer edits and status updates, no two items have the same
\* (manufacturer, pallet id, box number) triple, nor the same barcode
\* payload.
C3_OneItemPerTriple ==
    \A j, k \in DOMAIN items :
        j # k => /\ Triple(items[j]) # Triple(items[k])
                 /\ items[j].barcode_payload # items[k].barcode_payload

\* a write for a triple that an item already has was turned down: the
\* request ended with 500 and wrote nothing under its own id
C3_Witness ==
    /\ response.op \in {"add_shipment", "create_item_from_excel"}
    /\ response.code = 500
    /\ \E j \in DOMAIN items :
           Triple(items[j]) =
               IF response.op = "add_shipment"
               THEN <<Strip(response.form.manufacturer), response.pallet_id, 1>>
               ELSE <<response.data.manufacturer, response.data.pallet_id,
                      response.data.box_id>>

\* the StatusHistory rows of item j, oldest first
HistoryOf(j) == SelectSeq(status_history, LAMBDA h : h.item = j)

\* C7: in every state a reader can observe, the status of an item is the new
\* status of the latest StatusHistory row written for it, and an item
\* without such a row has the status it was created with.
C7_StatusMatchesHistory ==
    \A j \in DOMAIN items :
        LET rows == HistoryOf(j)
        IN  IF rows = <<>> THEN items[j].status = "checked_in"
            ELSE items[j].status = rows[Len(rows)].new_status

\* the damaged-box entries of a form: the trimmed, non-empty parts of the
\* comma-separated list
DamagedEntries(form) ==
    LET parts == SplitComma(Strip(form.damaged_boxes))
    IN  {Strip(parts[k]) : k \in DOMAIN parts} \ {<<>>}

\* an error list carries one of the messages
Reported(errors, messages) ==
    \E k \in DOMAIN errors : errors[k][1] \in messages

\* C11: validation reports every violated rule, whichever other rules fail:
\* a missing manufacturer, a missing location, a number of boxes that is not
\* an integer of at least 1, a count per box that is not an integer of at
\* least 1, and every damaged-box entry that is not an integer or, the number
\* of boxes being an integer, is not within 1..num_boxes.
C11_EveryViolationReported ==
    response.op = "add_shipment" =>
        LET form == response.form
            errors == response.errors
            nb == ParseInt(form.num_boxes)
        IN  /\ Strip(form.manufacturer) = <<>> =>
                   Reported(errors, {"Manufacturer / Supplier is required."})
            /\ FormLocation(form) = "" =>
                   Reported(errors, {"Receiving Location is required."})
            /\ ~IsCount(form.num_boxes) =>
                   Reported(errors, {"Number of boxes must be a valid number.",
                                     "Number of boxes must be at least 1."})
            /\ ~IsCount(form.items_per_box) =>
                   Reported(errors, {"Items per box must be a valid number.",
                                     "Items per box must be at least 1."})
            /\ \A part \in DamagedEntries(form) :
                   (\/ ~ParseInt(part).ok
                    \/ nb.ok /\ ParseInt(part).val \notin 1..nb.val) =>
                       \E k \in DOMAIN errors :
                           /\ errors[k][1] \in {"Invalid damaged box number",
                                                "Damaged box outside the range"}
                           /\ errors[k][2] \in {part,
                                                IntToText(ParseInt(part).val)}

\* the box numbers a form lists as damaged
DamagedNumbers(form) ==
    {ParseInt(part).val : part \in DamagedEntries(form)}

\* C12: in a valid shipment with a damaged-box list, box b is created damaged
\* exactly when the list names b, whatever the global flag says and however
\* often b is listed; with no entry in the list every box is damaged exactly
\* when the global flag is yes.
C12_DamageListWins ==
    [][(/\ response'.op = "add_shipment"
        /\ response'.code = 200
        /\ response'.errors = <<>>) =>
          LET form == response'.form
              created == response'.items
          IN  /\ Len(created) = ParseInt(form.num_boxes).val
              /\ \A b \in DOMAIN created :
                     /\ items'[created[b]].box_id = b
                     /\ items'[created[b]].damaged =
                            IF DamagedNumbers(form) # {}
                            THEN b \in DamagedNumbers(form)
                            ELSE form.damaged = "yes"]_vars

\* three boxes have come in with the global flag on yes and box 2 listed
\* twice: only box 2 is damaged
C12_Witness ==
    /\ response.op = "add_shipment"
    /\ response.errors = <<>>
    /\ response.form.damaged = "yes"
    /\ response.form.damaged_boxes = <<"2", ",", "2">>
    /\ Len(response.items) = 3
    /\ items[response.items[2]].damaged
    /\ ~items[response.items[1]].damaged
    /\ ~items[response.items[3]].damaged

\* the count-exception entries of a form: the trimmed, non-empty parts of
\* the comma-separated list
ExceptionEntries(form) ==
    LET parts == SplitComma(Strip(form.count_exceptions))
    IN  {Strip(parts[k]) : k \in DOMAIN parts} \ {<<>>}

\* the position of the first colon of an entry, 0 when it has none
ColonAt(entry) ==
    IF \A k \in DOMAIN entry : entry[k] # ":" THEN 0
    ELSE CHOOSE k \in DOMAIN entry :
             entry[k] = ":" /\ \A j \in 1..(k - 1) : entry[j] # ":"

\* the box and the count of an entry "box:count"
EntryBox(entry) == ParseInt(SubSeq(entry, 1, ColonAt(entry) - 1))

EntryCount(entry) == ParseInt(SubSeq(entry, ColonAt(entry) + 1, Len(entry)))

\* an entry is well formed for a shipment of n boxes: a colon, a box within
\* 1..n before it, a count that is not negative after it
WellFormedEntry(entry, n) ==
    /\ ColonAt(entry) # 0
    /\ EntryBox(entry).ok /\ EntryBox(entry).val \in 1..n
    /\ EntryCount(entry).ok /\ EntryCount(entry).val >= 0

\* C13: in a shipment that is applied, a box named by a count exception
\* "box:count" is created with that count as its content, and every other
\* box with items_per_box.
C13_ExceptionSetsContent ==
    [][(/\ response'.op = "add_shipment"
        /\ response'.code = 200
        /\ response'.errors = <<>>) =>
          LET form == response'.form
              created == response'.items
              n == ParseInt(form.num_boxes).val
              named(b) == {entry \in ExceptionEntries(form) :
                              /\ WellFormedEntry(entry, n)
                              /\ EntryBox(entry).val = b}
          IN  \A b \in DOMAIN created :
                  IF named(b) = {}
                  THEN items'[created[b]].content =
                           ParseInt(form.items_per_box).val
                  ELSE \E entry \in named(b) :
                           items'[created[b]].content = EntryCount(entry).val]_vars

\* C14: a shipment whose count-exception list has an entry without a colon,
\* with a box or count that is not a number, with a negative count or with a
\* box outside 1..num_boxes is turned down: an error is returned and no item
\* is created.
C14_MalformedExceptionRejected ==
    (/\ response.op = "add_shipment"
     /\ \E entry \in ExceptionEntries(response.form) :
            ~WellFormedEntry(entry, ParseInt(response.form.num_boxes).val)) =>
        /\ response.errors # <<>>
        /\ response.items = <<>>

\* the items a shipment submission created under pallet id p: those whose
\* creation row in StatusHistory names the pallet
CreatedByShipment(p) ==
    {status_history[k].item :
        k \in {h \in DOMAIN status_history :
                  /\ status_history[h].old_status = ""
                  /\ status_history[h].notes =
                         <<"Item created via shipment (Pallet", p>>}}

\* the stored pallet ids, and those of them that are decimal integers
StoredPalletIds == {items[j].pallet_id : j \in DOMAIN items}

NumericPalletIds == {ParseInt(p).val : p \in {q \in StoredPalletIds : ParseInt(q).ok}}

\* C15: the pallet id a shipment submission is given is "1" when no item
\* exists; when the stored pallet ids are integers it is the decimal string
\* of the largest of them plus 1; and a shipment that is applied gets a
\* pallet id that no item had before and that is larger than every integer
\* pallet id stored before, so successive shipments get strictly increasing,
\* distinct pallet ids.
C15_NextPalletIdIsMaxPlusOne ==
    [][response'.op = "add_shipment" =>
          LET given == response'.pallet_id
          IN  /\ items = <<>> => given = <<"1">>
              /\ (/\ items # <<>>
                  /\ \A p \in StoredPalletIds : ParseInt(p).ok) =>
                     given = IntToText(SetMax(NumericPalletIds) + 1)
              /\ (response'.code = 200 /\ response'.errors = <<>>) =>
                     /\ given \notin StoredPalletIds
                     /\ ParseInt(given).ok
                     /\ \A v \in NumericPalletIds : ParseInt(given).val > v
                     /\ \A k \in DOMAIN response'.items :
                            items'[response'.items[k]].pallet_id = given]_vars

\* a second shipment has been applied after a first: the first holds pallet
\* "1", the second was given "2"
C15_Witness ==
    /\ response.op = "add_shipment"
    /\ response.code = 200
    /\ response.errors = <<>>
    /\ response.pallet_id = <<"2">>
    /\ CreatedByShipment(<<"1">>) # {}
    /\ \A k \in DOMAIN response.items :
           response.items[k] \notin CreatedByShipment(<<"1">>)

\* C16: with every request answered, the items shipment submissions stored
\* under the pallet id of the submission answered last are all its own: no
\* other submission has stored items under that pallet id.
C16_PalletIdOfOneSubmission ==
    (/\ reqs = <<>>
     /\ response.op = "add_shipment"
     /\ response.code = 200
     /\ response.errors = <<>>) =>
        CreatedByShipment(response.pallet_id) \subseteq
            {response.items[k] : k \in DOMAIN response.items}

\* C17: an item that a shipment or item-API upsert creates starts in status
\* checked_in, with no checkout attribution and not archived, and has
\* exactly one StatusHistory row (old status empty, new status checked_in)
\* and exactly one ChangeLog row of kind created.
C17_CreationIsAudited ==
    [][response'.op \in UpsertOps =>
          \A j \in (DOMAIN items') \ (DOMAIN items) :
              /\ items'[j].status = "checked_in"
              /\ items'[j].checked_out_by = ""
              /\ items'[j].checked_out_at = None
              /\ ~items'[j].archived
              /\ Cardinality({k \in DOMAIN status_history' :
                                 /\ status_history'[k].item = j
                                 /\ status_history'[k].old_status = ""
                                 /\ status_history'[k].new_status = "checked_in"})
                     = 1
              /\ Cardinality({k \in DOMAIN change_log' :
                                 /\ change_log'[k].item = j
                                 /\ change_log'[k].change_type = "created"})
                     = 1]_vars

\* C18: update_status and bulk_update_status called with a status that is
\* not one of the five known values answer with a 400 response and leave
\* every item, the StatusHistory and the NotificationLog as they were; the
\* error is 'Invalid status' whenever the request names a status and, for
\* the bulk endpoint, at least one item.
C18_UnknownStatusRejected ==
    [][(\/ /\ response'.op = "update_status"
           /\ response'.status \notin StatusLabels
        \/ /\ response'.op = "bulk_update_status"
           /\ response'.status \notin STATUS_CHOICES) =>
          /\ response'.code = 400
          /\ UNCHANGED store
          /\ (\/ response'.op = "update_status"
              \/ (response'.item_ids # {} /\ response'.status # "")) =>
                 response'.error = "Invalid status"]_vars

C18_Witness ==
    /\ response.op = "bulk_update_status"
    /\ response.status = "Tested"
    /\ response.item_ids \cap DOMAIN items # {}
    /\ response.code = 400
    /\ response.error = "Invalid status"

\* C19: update_status or edit_item on an item id that does not exist
\* answers with a 404 response.  The state is the one the request found,
\* since rows are never deleted: the id is still absent.
C19_MissingItemIs404 ==
    (/\ response.op \in {"update_status", "edit_item"}
     /\ response.item_id \notin DOMAIN items
     /\ response.op = "update_status" => response.status \in StatusLabels) =>
        response.code = 404

\* C20: a status sent to edit_item that differs from the item's status has
\* the effect update_status has for the same item, status, actor and note:
\* the items, the StatusHistory and the NotificationLog become those of one
\* transition, and a status that is not one of the five known values is
\* answered with 400 and changes nothing.
C20_EditStatusIsTransition ==
    [][(/\ response'.op = "edit_item"
        /\ response'.item_id \in DOMAIN items
        /\ DOMAIN response'.data = {"status"}) =>
          IF response'.data["status"] = items[response'.item_id].status
          THEN TRUE
          ELSE IF response'.data["status"] \in STATUS_CHOICES
          THEN LET t == Transition(DB, response'.item_id,
                                   response'.data["status"], response'.notes,
                                   response'.changed_by, now')
               IN  /\ items' = t.items
                   /\ status_history' = t.status_history
                   /\ notification_log' = t.notification_log
          ELSE /\ response'.code = 400
               /\ UNCHANGED store]_vars

\* the ChangeLog rows a step appends for one item and one field
NewChangeRows(j, f) ==
    {k \in (DOMAIN change_log') \ (DOMAIN change_log) :
        /\ change_log'[k].item = j
        /\ change_log'[k].field_name = f}

\* C21: edit_item and bulk_edit append exactly one ChangeLog row, of kind
\* field_edit with the old and the new stringified value and the actor, for
\* each logged field of an item whose stringified value differs before and
\* after the call, and no row for a field whose value is the same, whether
\* the request names it or not.
C21_OneRowPerChangedField ==
    [][response'.op \in {"edit_item", "bulk_edit"} =>
          \A j \in DOMAIN items :
              \A n \in DOMAIN LoggedFields :
                  LET f == LoggedFields[n]
                      old_val == LoggedValue(items[j], f)
                      new_val == LoggedValue(items'[j], f)
                  IN  IF old_val = new_val
                      THEN NewChangeRows(j, f) = {}
                      ELSE /\ Cardinality(NewChangeRows(j, f)) = 1
                           /\ \A k \in NewChangeRows(j, f) :
                                  /\ change_log'[k].change_type = "field_edit"
                                  /\ change_log'[k].old_value = old_val
                                  /\ change_log'[k].new_value = new_val
                                  /\ change_log'[k].changed_by =
                                         response'.changed_by]_vars

\* an edit that names two fields, one of them with the value the item has,
\* logs the other one only
C21_Witness ==
    /\ response.op = "edit_item"
    /\ response.code = 200
    /\ DOMAIN response.data = {"location", "manufacturer"}
    /\ \E k \in DOMAIN change_log :
           /\ change_log[k].item = response.item_id
           /\ change_log[k].changed_at = now
           /\ change_log[k].field_name = "location"
    /\ ~\E k \in DOMAIN change_log :
           /\ change_log[k].item = response.item_id
           /\ change_log[k].changed_at = now
           /\ change_log[k].field_name = "manufacturer"

\* C22: a StatusHistory or ChangeLog row, once written, stays at its place
\* with the same item, old and new values, actor and timestamp; only the
\* notes of a StatusHistory row change, and only for the row that an
\* update_history_notes request names.
C22_AuditTrailAppendOnly ==
    [][/\ \A k \in DOMAIN status_history :
              /\ k \in DOMAIN status_history'
              /\ [status_history'[k] EXCEPT !.notes = status_history[k].notes]
                     = status_history[k]
              /\ \/ /\ response'.op = "update_history_notes"
                    /\ response'.history_id = k
                 \/ status_history'[k] = status_history[k]
       /\ \A k \in DOMAIN change_log :
              /\ k \in DOMAIN change_log'
              /\ change_log'[k] = change_log[k]]_vars

\* the note of an item's creation row was rewritten
C22_Witness ==
    /\ response.op = "update_history_notes"
    /\ response.code = 200
    /\ status_history[response.history_id].notes = "amended"
    /\ status_history[response.history_id].old_status = ""
    /\ change_log # <<>>

\* C23: the overdue report lists exactly the items that are not archived,
\* are checked out and were checked out more than seven days before the
\* time of the report.
C23_OverdueListing ==
    (response.op = "overdue_items" /\ response.at = now) =>
        \A j \in DOMAIN items :
            j \in response.overdue_items <=>
                /\ ~items[j].archived
                /\ items[j].status = "checked_out"
                /\ now - items[j].checked_out_at > 7

\* a report that leaves out an archived item checked out 8 days before
C23_Witness ==
    /\ response.op = "overdue_items"
    /\ response.at = now
    /\ \E j \in DOMAIN items :
           /\ items[j].archived
           /\ items[j].status = "checked_out"
           /\ now - items[j].checked_out_at = 8
           /\ j \notin response.overdue_items

\* a report that lists an item checked out 8 days before
C23_ListedAtEightDays ==
    /\ response.op = "overdue_items"
    /\ response.at = now
    /\ \E j \in response.overdue_items : now - items[j].checked_out_at = 8

\* a report that leaves out an item checked out 6 days before
C23_NotListedAtSixDays ==
    /\ response.op = "overdue_items"
    /\ response.at = now
    /\ \E j \in DOMAIN items :
           /\ ~items[j].archived
           /\ items[j].status = "checked_out"
           /\ now - items[j].checked_out_at = 6
           /\ j \notin response.overdue_items

\* C24: while the webhook fails, update_status and bulk_update_status still
\* answer 200 and every transition persists: the new status, the checkout
\* attribution, one StatusHistory row per item and the NotificationLog row
\* of every item that is checked out or changes status.
C24_WebhookFailureIsHarmless ==
    [][(/\ webhook = "down"
        /\ now' # now
        /\ \/ /\ response'.op = "update_status"
              /\ response'.status \in StatusLabels
              /\ response'.item_id \in DOMAIN items
           \/ /\ response'.op = "bulk_update_status"
              /\ response'.status \in STATUS_CHOICES
              /\ response'.item_ids # {}) =>
          LET ids == IF response'.op = "update_status"
                     THEN {response'.item_id}
                     ELSE response'.item_ids \cap DOMAIN items
              s == IF response'.op = "update_status"
                   THEN status_mapping[response'.status]
                   ELSE response'.status
              notified == {j \in ids : s = "checked_out" \/ items[j].status # s}
          IN  /\ response'.code = 200
              /\ \A j \in ids :
                     /\ items'[j].status = s
                     /\ s = "checked_out" =>
                            /\ items'[j].checked_out_by = response'.changed_by
                            /\ items'[j].checked_out_at = now'
                     /\ \E k \in (DOMAIN status_history') \ (DOMAIN status_history) :
                            /\ status_history'[k].item = j
                            /\ status_history'[k].old_status = items[j].status
                            /\ status_history'[k].new_status = s
              /\ Len(status_history') = Len(status_history) + Cardinality(ids)
              /\ Len(notification_log') =
                     Len(notification_log) + Cardinality(notified)
              /\ \A j \in notified :
                     \E k \in (DOMAIN notification_log')
                                  \ (DOMAIN notification_log) :
                         notification_log'[k].item = j]_vars

\* a checkout answered 200 whose notification went to the failing webhook
C24_Witness ==
    /\ webhook = "down"
    /\ response.op = "update_status"
    /\ response.code = 200
    /\ response.status = "Checked Out"
    /\ items[response.item_id].status = "checked_out"
    /\ \E k \in DOMAIN notification_log :
           /\ notification_log[k].item = response.item_id
           /\ notification_log[k].sent_at = now
           /\ notification_log[k].sent_to = "webhook_url"

\* C25: on every status transition the notification is decided by the
\* first rule that matches: checkout when the new status is checked_out,
\* else damaged when the item is damaged and the status changes, else
\* status_change when the status changes, else none; one NotificationLog
\* row of that type is appended for the item, or no row when none.
C25_NotificationPolicy ==
    [][\A j \in DOMAIN items :
          LET rows == {k \in (DOMAIN notification_log')
                                 \ (DOMAIN notification_log) :
                          notification_log'[k].item = j}
              transition ==
                  /\ now' # now
                  /\ \/ /\ response'.op = "update_status"
                        /\ response'.code = 200
                        /\ response'.item_id = j
                     \/ /\ response'.op = "bulk_update_status"
                        /\ response'.code = 200
                        /\ j \in response'.item_ids
                     \/ /\ response'.op = "edit_item"
                        /\ response'.item_id = j
                        /\ response'.status_changed
              old == items[j].status
              new == items'[j].status
              decision ==
                  IF new = "checked_out" THEN "checkout"
                  ELSE IF items'[j].damaged /\ old # new THEN "damaged"
                  ELSE IF old # new THEN "status_change"
                  ELSE ""
          IN  IF transition /\ decision # ""
              THEN /\ Cardinality(rows) = 1
                   /\ \A k \in rows :
                          notification_log'[k].notification_type = decision
              ELSE rows = {}]_vars

\* a damaged item was checked out: the row says checkout, not damaged
C25_Witness ==
    /\ response.op = "update_status"
    /\ response.code = 200
    /\ items[response.item_id].damaged
    /\ items[response.item_id].status = "checked_out"
    /\ \E k \in DOMAIN notification_log :
           /\ notification_log[k].item = response.item_id
           /\ notification_log[k].sent_at = now
           /\ notification_log[k].notification_type = "checkout"
    /\ \E k \in DOMAIN notification_log :
           notification_log[k].notification_type = "damaged"

\* C26: when one statement on one item fails during bulk_update_status,
\* bulk_edit or bulk_archive, every other listed item still ends as the
\* request asks, and every item whose row changed has a new StatusHistory
\* or ChangeLog row.
C26_BulkFailureIsPerItem ==
    [][(/\ now' # now
        /\ response'.op \in {"bulk_update_status", "bulk_edit", "bulk_archive"}
        /\ response'.item_ids # {}) =>
          \A j \in response'.item_ids \cap DOMAIN items :
              /\ j # fault[1] =>
                     CASE response'.op = "bulk_update_status" ->
                              items'[j].status = response'.status
                       [] response'.op = "bulk_archive" ->
                              items'[j].archived = response'.archive
                       [] response'.op = "bulk_edit" ->
                              \A f \in DOMAIN response'.fields :
                                  IF f = "damaged"
                                  THEN items'[j].damaged = response'.fields[f]
                                  ELSE items'[j].location = response'.fields[f]
              /\ items'[j] # items[j] =>
                     \/ \E k \in (DOMAIN status_history') \ (DOMAIN status_history) :
                            status_history'[k].item = j
                     \/ \E k \in (DOMAIN change_log') \ (DOMAIN change_log) :
                            change_log'[k].item = j]_vars

\* C27: a PrintJob is created pending, and a job that is printed or failed
\* keeps its status, its printed_at and its error text under every later
\* request.
C27_PrintJobTerminal ==
    [][/\ \A j \in (DOMAIN print_jobs') \ (DOMAIN print_jobs) :
              print_jobs'[j].status = "pending"
       /\ \A j \in DOMAIN print_jobs :
              print_jobs[j].status \in {"printed", "failed"} =>
                  /\ j \in DOMAIN print_jobs'
                  /\ print_jobs'[j] = print_jobs[j]]_vars

\* C28: a successful delete_pallet removes every item of the manufacturer
\* and pallet together with its StatusHistory, ChangeLog, ScanLog and
\* PrintJob rows and leaves the other items alone, and appends exactly one
\* DeletionLog row whose item_count is the number of items deleted; a
\* delete_pallet that fails, as when the snapshot cannot be written,
\* changes nothing; a DeletionLog row, once written, stays as it is.
C28_DeletePalletAllOrNothing ==
    [][/\ \A k \in DOMAIN deletion_log :
              /\ k \in DOMAIN deletion_log'
              /\ deletion_log'[k] = deletion_log[k]
       /\ (now' # now /\ response'.op = "delete_pallet") =>
              LET ids == {j \in DOMAIN items :
                             /\ items[j].manufacturer = response'.manufacturer
                             /\ items[j].pallet_id = response'.pallet_id}
                  Gone(rows) == \A k \in DOMAIN rows : rows[k].item \notin ids
              IN  IF response'.code = 200
                  THEN /\ ids # {}
                       /\ DOMAIN items' = (DOMAIN items) \ ids
                       /\ \A j \in DOMAIN items' : items'[j] = items[j]
                       /\ Gone(status_history')
                       /\ Gone(change_log')
                       /\ Gone(scan_log')
                       /\ Gone(print_jobs')
                       /\ Len(deletion_log') = Len(deletion_log) + 1
                       /\ deletion_log'[Len(deletion_log')].item_count =
                              Cardinality(ids)
                  ELSE /\ fault = <<0, "snapshot">> \/ ids = {}
                       /\ UNCHANGED store]_vars

\* pallet 1 of manufacturer A, with audit rows and a print job, was deleted
\* and the item of manufacturer B is still there
C28_Witness ==
    /\ response.op = "delete_pallet"
    /\ response.code = 200
    /\ Len(deletion_log) = 1
    /\ deletion_log[1].item_count = 2
    /\ deletion_log[1].deleted_at = now
    /\ status_history = <<>>
    /\ next_job > 1
    /\ print_jobs = <<>>

\* with the snapshot failing, delete_pallet answered 500 and the pallet is
\* still stored
C28_SnapshotFailureKeepsItems ==
    /\ response.op = "delete_pallet"
    /\ response.code = 500
    /\ \E j \in DOMAIN items :
           /\ items[j].manufacturer = response.manufacturer
           /\ items[j].pallet_id = response.pallet_id

\* C29: edit_item with a content that is not a whole number answers 400 and
\* stores nothing: the item keeps every field, also the fields the same
\* request names, and no ChangeLog, StatusHistory or other row is written.
C29_BadContentChangesNothing ==
    [][(/\ response'.op = "edit_item"
        /\ response'.item_id \in DOMAIN items
        /\ "content" \in DOMAIN response'.data
        /\ response'.data["content"] = <<"str", <<"x">>>>) =>
          /\ response'.code = 400
          /\ UNCHANGED store]_vars

\* the rejected request also named a location the item does not have
C29_Witness ==
    /\ response.op = "edit_item"
    /\ response.code = 400
    /\ response.item_id \in DOMAIN items
    /\ DOMAIN response.data = {"content", "location"}
    /\ response.data["content"] = <<"str", <<"x">>>>
    /\ items[response.item_id].location # response.data["location"]

\* C30: a scan of the current scan identifier of an item resolves to that
\* item and appends exactly one ScanLog row for it, and a scan that resolves
\* to no item appends no ScanLog row
C30_ScanResolvesItem ==
    [][(now' # now /\ response'.op = "scanner_landing") =>
          /\ \A j \in DOMAIN items :
                 (response'.id = <<>> /\
                  response'.data = items[j].barcode_payload) =>
                     /\ response'.item = j
                     /\ Len(scan_log') = Len(scan_log) + 1
                     /\ scan_log'[Len(scan_log')].item = j
                     /\ SubSeq(scan_log', 1, Len(scan_log)) = scan_log
          /\ response'.item = 0 => scan_log' = scan_log]_vars

\* C31: the audit trail that a scan shows holds every StatusHistory row and
\* every ChangeLog row of the scanned item, each once and under its kind,
\* holds no row of another item, and runs from the newest timestamp to the
\* oldest
C31_AuditTrailMerge ==
    (response.op = "scanner_landing" /\ response.item # 0) =>
        LET trail == response.audit_trail
            j == response.item
            Row(e) == IF e.entry_type = "status" THEN status_history[e.pk]
                      ELSE change_log[e.pk]
        IN  /\ \A k \in DOMAIN status_history :
                   status_history[k].item = j =>
                       Cardinality({n \in DOMAIN trail :
                           trail[n].entry_type = "status" /\ trail[n].pk = k}) = 1
            /\ \A k \in DOMAIN change_log :
                   change_log[k].item = j =>
                       Cardinality({n \in DOMAIN trail :
                           trail[n].entry_type = "change" /\ trail[n].pk = k}) = 1
            /\ \A n \in DOMAIN trail :
                   /\ trail[n].entry_type \in {"status", "change"}
                   /\ trail[n].pk \in (IF trail[n].entry_type = "status"
                                       THEN DOMAIN status_history
                                       ELSE DOMAIN change_log)
                   /\ Row(trail[n]).item = j
                   /\ Row(trail[n]).changed_at = trail[n].changed_at
            /\ \A n \in 1..(Len(trail) - 1) :
                   trail[n].changed_at >= trail[n + 1].changed_at

\* a scan has shown a trail with rows of both kinds and of two timestamps
C31_Witness ==
    /\ response.op = "scanner_landing" /\ response.item # 0
    /\ \E n, m \in DOMAIN response.audit_trail :
           /\ response.audit_trail[n].entry_type = "status"
           /\ response.audit_trail[m].entry_type = "change"
           /\ response.audit_trail[n].changed_at >
                  response.audit_trail[m].changed_at
    /\ \E k \in DOMAIN status_history : status_history[k].item # response.item

\* C32: when no request is in flight, the status of every item is the new
\* status of the StatusHistory row written last for it, and every logged
\* field holds the new value of the ChangeLog row written last for it,
\* however the statements of status changes and field edits interleaved
C32_NoLostUpdate ==
    reqs = <<>> =>
        \A j \in DOMAIN items :
            /\ HistoryOf(j) # <<>> =>
                   items[j].status = HistoryOf(j)[Len(HistoryOf(j))].new_status
            /\ \A k \in DOMAIN LoggedFields :
                   LET edits == SelectSeq(change_log, LAMBDA c :
                                    /\ c.item = j
                                    /\ c.change_type = "field_edit"
                                    /\ c.field_name = LoggedFields[k])
                   IN  edits # <<>> =>
                           LoggedValue(items[j], LoggedFields[k]) =
                               edits[Len(edits)].new_value

\* C33: the StatusHistory rows of an item that a shipment created form a
\* chain in write order: the first has no old status and the new status
\* checked_in, every later one starts from the status the one before it
\* ended in, and the last one ends in the status the item has
C33_HistoryChain ==
    \A j \in DOMAIN items :
        LET rows == HistoryOf(j)
        IN  (\E k \in DOMAIN rows : rows[k].old_status = "") =>
                /\ rows[1].old_status = "" /\ rows[1].new_status = "checked_in"
                /\ \A k \in 2..Len(rows) :
                       rows[k].old_status = rows[k - 1].new_status
                /\ rows[Len(rows)].new_status = items[j].status

\* an item of a shipment has been moved twice, to two different statuses
C33_Witness ==
    \E j \in DOMAIN items :
        /\ Len(HistoryOf(j)) = 3
        /\ HistoryOf(j)[1].old_status = ""
        /\ HistoryOf(j)[2].new_status # HistoryOf(j)[3].new_status
        /\ HistoryOf(j)[2].new_status # "checked_in"

\* C34: a shipment submission that ends, with its result page or with a
\* uniqueness violation, has created either every one of its boxes or none,
\* and every item it created has its creation rows in StatusHistory and in
\* ChangeLog, however the statements of concurrent submissions interleaved
C34_ShipmentAllOrNothing ==
    [][(Len(reqs') < Len(reqs) /\ response'.op = "add_shipment") =>
          LET created == response'.created
              num_boxes == ParseInt(response'.form.num_boxes).val
          IN  /\ Len(created) \in {0, num_boxes}
              /\ \A n \in DOMAIN created :
                     /\ \E k \in DOMAIN status_history' :
                            /\ status_history'[k].item = created[n]
                            /\ status_history'[k].old_status = ""
                     /\ \E k \in DOMAIN change_log' :
                            /\ change_log'[k].item = created[n]
                            /\ change_log'[k].change_type = "created"]_vars

\* the pallet deletion answered last removed the numerically highest pallet:
\* no item is left with its number or a higher one
HighestPalletDeleted ==
    /\ response.op = "delete_pallet" /\ response.code = 200
    /\ \A j \in DOMAIN items :
           CastInteger(items[j].pallet_id) < CastInteger(response.pallet_id)

RowsOf(rows, j) == SelectSeq(rows, LAMBDA r : r.item = j)

\* a StatusHistory row without its note
Unnoted(h) ==
    [item |-> h.item, old_status |-> h.old_status, new_status |-> h.new_status,
     changed_by |-> h.changed_by, changed_at |-> h.changed_at]

\* C36: a bulk status update that is carried out leaves every existing item
\* it names as one single status update of that item would: the same status
\* and checkout attribution, one more StatusHistory row, from the item's
\* previous status, and the same NotificationLog rows; it leaves every other
\* item alone, and its count is the number of existing items named
C36_BulkIsSingle ==
    [][(now' # now /\ response'.op = "bulk_update_status" /\
        response'.code = 200) =>
          /\ response'.updated_count =
                 Cardinality(response'.item_ids \cap DOMAIN items)
          /\ DOMAIN items' = DOMAIN items
          /\ \A j \in DOMAIN items :
                 IF j \notin response'.item_ids
                 THEN /\ items'[j] = items[j]
                      /\ Len(RowsOf(status_history', j)) =
                             Len(RowsOf(status_history, j))
                      /\ RowsOf(notification_log', j) =
                             RowsOf(notification_log, j)
                 ELSE LET single == Transition(DB, j, response'.status, "",
                                               response'.changed_by, now')
                          mine == RowsOf(status_history', j)
                          its == RowsOf(single.status_history, j)
                      IN  /\ items'[j] = single.items[j]
                          /\ Len(mine) = Len(RowsOf(status_history, j)) + 1
                          /\ Len(mine) = Len(its)
                          /\ Unnoted(mine[Len(mine)]) = Unnoted(its[Len(its)])
                          /\ mine[Len(mine)].old_status = items[j].status
                          /\ RowsOf(notification_log', j) =
                                 RowsOf(single.notification_log, j)]_vars

\* a bulk update has checked out two items, one of them damaged, and was
\* told of an item that does not exist
C36_Witness ==
    /\ response.op = "bulk_update_status" /\ response.code = 200
    /\ response.updated_count = 2
    /\ Cardinality(response.item_ids) > 2
    /\ \A j \in DOMAIN items : items[j].status = "checked_out"
    /\ Len(notification_log) >= 2

\* the items an archive request names
Named(resp) ==
    IF resp.op = "archive_item" THEN {resp.item_id} ELSE resp.item_ids

\* C37: an archive or bulk archive request changes no field and appends no
\* ChangeLog row for an item that is in the requested state already, and a
\* request that repeats the one before it changes no item and no audit row
C37_ArchiveIdempotent ==
    [][(now' # now /\ response'.op \in {"archive_item", "bulk_archive"} /\
        response'.code = 200) =>
          /\ \A j \in Named(response') \cap DOMAIN items :
                 items[j].archived = response'.archive =>
                     /\ items'[j] = items[j]
                     /\ RowsOf(change_log', j) = RowsOf(change_log, j)
          /\ (/\ response.op = response'.op
              /\ response.code = 200
              /\ Named(response) = Named(response')
              /\ response.archive = response'.archive) =>
                 /\ items' = items
                 /\ change_log' = change_log
                 /\ status_history' = status_history]_vars

\* an archive request has named an item that an earlier request archived
C37_Witness ==
    /\ response.op \in {"archive_item", "bulk_archive"}
    /\ response.code = 200 /\ response.archive
    /\ \E j \in Named(response) \cap DOMAIN items :
           /\ items[j].archived
           /\ items[j].archived_at < now
           /\ Len(SelectSeq(change_log, LAMBDA c :
                      c.item = j /\ c.field_name = "archived")) = 1

\* C38: the print worker sends the label of a print job to the printer at
\* most once, whatever the outcome of its calls
C38_PrintedAtMostOnce ==
    \A j \in DOMAIN print_jobs :
        Cardinality({k \in DOMAIN printer : printer[k] = j}) <= 1

====
